---------------------------- MODULE Spec2Model ----------------------------
(***************************************************************************)
(* Model of the forex alert core: the in-memory DataStorage               *)
(* (forex_alerts/services/data_storage.py) and the SignalCalculator        *)
(* (forex_alerts/services/signal_calculator.py).                           *)
(*                                                                         *)
(* A DataFrame is a sequence of rows; a row is a record holding its index  *)
(* label ts (the timestamp, in whole hours) and its Close column.  The     *)
(* other OHLCV columns travel with the row; only get_latest_data_point     *)
(* reads them, and there a row has Open = High = Low = Close, Volume = 0.  *)
(* Time is counted in hours: datetime.now() is the variable now.           *)
(***************************************************************************)
EXTENDS Integers, Sequences, FiniteSets, TLC

VARIABLES
    storage,        \* DataStorage._storage: dict symbol -> DataFrame
    last_cleanup,   \* DataStorage._last_cleanup
    now,            \* the wall clock read by datetime.now()
    ret,            \* the last API call of the single-threaded caller and its return value
    lock,           \* DataStorage._data_lock: None or the thread holding it
    pc,             \* per thread: the statement it is about to execute
    frame,          \* per thread: the locals of the call it is in
    calls,          \* per thread: the calls it has made
    written,        \* history: per symbol, the timestamps passed to store_data
    swept,          \* history: the storage before the last sweep, and its cutoff
    autoStart,      \* history: when the last automatically triggered sweep started
    sweepEnd,       \* history: when the last sweep of any kind finished
    series,         \* SignalCalculator: the close column of the DataFrame passed in
    ema_length,     \* SignalCalculator.ema_length
    result,         \* SignalCalculator: the last call and what it returned or raised
    bars,           \* SignalCalculator: the OHLCV rows passed to calculate_vwap
    levels,         \* SignalCalculator: the four values passed to _calculate_signal_confidence
    held,           \* the caller's DataFrame object: a batch it passed or a result it got
    sharedWith,     \* the symbols whose stored DataFrame is that same object
    fields,         \* the field values passed to the MarketData constructor
    fetch           \* DataFetcher.get_forex_data: the call in progress and its attempts

storeVars == <<storage, last_cleanup>>
threadVars == <<lock, pc, frame, calls>>
histVars == <<written, swept, autoStart, sweepEnd>>

calcVars == <<series, ema_length, result, bars, levels>>
callerVars == <<held, sharedWith>>
ioVars == <<fields, fetch>>

vars == <<storage, last_cleanup, now, ret, lock, pc, frame, calls,
          written, swept, autoStart, sweepEnd, series, ema_length, result,
          bars, levels, held, sharedWith, fields, fetch>>

\* Optional values: None, or Some(v) holding v.
None == <<>>
Some(v) == <<v>>
NoThread == "none"

---------------------------------------------------------------------------
(* Floats as exact rationals <<n, d>> with d > 0 in lowest terms, and NaN. *)

Abs(n) == IF n < 0 THEN -n ELSE n

RECURSIVE Gcd(_, _)
Gcd(a, b) == IF b = 0 THEN a ELSE Gcd(b, a % b)

Norm(n, d) ==
    LET g == Gcd(Abs(n), Abs(d))
        sg == IF d < 0 THEN -1 ELSE 1
    IN  IF g = 0 THEN <<0, 1>> ELSE <<sg * (n \div g), sg * (d \div g)>>

Rat(n) == <<n, 1>>

\* numpy.nan / pd.isna; arithmetic on NaN gives NaN
NaN == <<0, 0>>
IsNa(x) == x[2] = 0

RAdd(a, b) ==
    IF IsNa(a) \/ IsNa(b) THEN NaN
    ELSE LET g == Gcd(a[2], b[2])
         IN  Norm(a[1] * (b[2] \div g) + b[1] * (a[2] \div g), a[2] * (b[2] \div g))
RNeg(a) == <<-a[1], a[2]>>
RSub(a, b) == RAdd(a, RNeg(b))
RMul(a, b) ==
    IF IsNa(a) \/ IsNa(b) THEN NaN
    ELSE LET g1 == Gcd(Abs(a[1]), b[2])
             g2 == Gcd(Abs(b[1]), a[2])
         IN  Norm((a[1] \div g1) * (b[1] \div g2), (a[2] \div g2) * (b[2] \div g1))
RDiv(a, b) == RMul(a, IF b[1] < 0 THEN <<-b[2], -b[1]>> ELSE <<b[2], b[1]>>)
\* float < and <=: every comparison with NaN is false
RLt(a, b) == ~IsNa(a) /\ ~IsNa(b) /\ RSub(a, b)[1] < 0
RLe(a, b) == ~IsNa(a) /\ ~IsNa(b) /\ RSub(a, b)[1] <= 0
RAbs(a) == <<Abs(a[1]), a[2]>>
RMin(a, b) == IF RLt(b, a) THEN b ELSE a
RMax(a, b) == IF RLt(a, b) THEN b ELSE a

---------------------------------------------------------------------------
(* Bounds of the model *)

MaxTs == 1          \* row timestamps range over 0..MaxTs
MaxClose == 2       \* Close values range over 1..MaxClose
MaxBatch == 2       \* rows in one DataFrame passed to store_data
MaxNow == 2         \* the clock stops advancing here
MaxPeriods == 2     \* the periods argument ranges over 1..MaxPeriods
MaxCalls == 2       \* calls each thread makes
RetentionHours == 1 \* the retention_hours the store was constructed with

Symbols == {"EURUSD", "GBPUSD"}
Threads == {"t1", "t2"}

Row == [ts : 0..MaxTs, close : 1..MaxClose]

RECURSIVE SeqsUpTo(_, _)
SeqsUpTo(S, n) ==
    IF n = 0 THEN {<<>>}
    ELSE LET shorter == SeqsUpTo(S, n - 1)
         IN  shorter \cup {Append(q, x) : q \in {r \in shorter : Len(r) = n - 1}, x \in S}

Frames == SeqsUpTo(Row, MaxBatch)

---------------------------------------------------------------------------
(* pandas operations used by DataStorage *)

\* DataFrame.empty
Empty(df) == Len(df) = 0

\* The positions of df kept by a boolean mask, in order.
RECURSIVE Keep(_, _, _)
Keep(df, mask(_), i) ==
    IF i > Len(df) THEN <<>>
    ELSE (IF mask(i) THEN <<df[i]>> ELSE <<>>) \o Keep(df, mask, i + 1)

\* combined_data[~combined_data.index.duplicated(keep='last')]
DropDuplicatedKeepLast(df) ==
    LET notDup(i) == ~ \E j \in (i + 1)..Len(df) : df[j].ts = df[i].ts
    IN  Keep(df, notDup, 1)

\* DataFrame.sort_index(): ascending by index label; rows with equal labels
\* keep their relative order.
RECURSIVE SortIndex(_)
SortIndex(df) ==
    IF Len(df) = 0 THEN <<>>
    ELSE LET m == CHOOSE i \in 1..Len(df) :
                    /\ \A j \in 1..Len(df) : df[i].ts <= df[j].ts
                    /\ \A j \in 1..(i - 1) : df[j].ts # df[i].ts
             rest == [k \in 1..(Len(df) - 1) |-> IF k < m THEN df[k] ELSE df[k + 1]]
         IN  <<df[m]>> \o SortIndex(rest)

\* DataFrame.tail(n)
Tail_(df, n) ==
    IF n = 0 THEN <<>>
    ELSE IF n > 0 THEN SubSeq(df, (IF Len(df) > n THEN Len(df) - n + 1 ELSE 1), Len(df))
    ELSE SubSeq(df, (IF Len(df) > -n THEN -n + 1 ELSE Len(df) + 1), Len(df))

\* data[data.index >= cutoff_time]
RecentRows(df, cutoff_time) ==
    LET recent(i) == df[i].ts >= cutoff_time
    IN  Keep(df, recent, 1)

\* dict with one key set / one key deleted
DictSet(d, k, v) == [x \in (DOMAIN d) \cup {k} |-> IF x = k THEN v ELSE d[x]]
DictDel(d, ks) == [x \in (DOMAIN d) \ ks |-> d[x]]
EmptyDict == [x \in {} |-> <<>>]

---------------------------------------------------------------------------
(* DataStorage: the critical sections *)

\* store_data, the body of `with self._data_lock`: the entry already held
\* for the symbol, if any (lines 50-52) ...
Existing(st, symbol) == IF symbol \in DOMAIN st THEN Some(st[symbol]) ELSE None

\* ... and what is stored for the symbol (lines 55-59, 63): the merge with the
\* existing entry, or a copy of the batch as it is for a new symbol.
Combine(existing, data) ==
    IF existing # None
    THEN SortIndex(DropDuplicatedKeepLast(existing[1] \o data))
    ELSE data

Merge(st, symbol, data) == DictSet(st, symbol, Combine(Existing(st, symbol), data))

\* cleanup_old_data storing recent_data even when it is empty
SweepKeepsEmptied(st, cutoff_time) ==
    [s \in DOMAIN st |-> RecentRows(st[s], cutoff_time)]

\* cleanup_old_data, the body of `with self._data_lock`.
SweepStrict(st, cutoff_time) ==
    LET symbols_to_remove ==
            {s \in DOMAIN st : Empty(st[s]) \/ Empty(RecentRows(st[s], cutoff_time + 1))}
    IN  [s \in (DOMAIN st) \ symbols_to_remove |-> RecentRows(st[s], cutoff_time + 1)]

Sweep(st, cutoff_time) ==
    LET symbols_to_remove ==
            {s \in DOMAIN st : Empty(st[s]) \/ Empty(RecentRows(st[s], cutoff_time))}
    IN  [s \in (DOMAIN st) \ symbols_to_remove |-> RecentRows(st[s], cutoff_time)]

\* cutoff_time = datetime.now() - timedelta(hours=self.retention_hours)
CutoffTime(t) == t - RetentionHours

\* self._cleanup_interval = timedelta(hours=1)
CleanupInterval == 1

\* _maybe_cleanup: datetime.now() - self._last_cleanup >= self._cleanup_interval
CleanupDue(t, last) == t - last >= CleanupInterval

\* get_historical_data
GetHistoricalNoTail(st, symbol, periods) ==
    IF symbol \notin DOMAIN st THEN None
    ELSE IF Empty(st[symbol]) THEN None
    ELSE IF Len(st[symbol]) <= periods THEN Some(st[symbol])
    ELSE Some(SubSeq(st[symbol], 1, periods))

GetHistoricalData(st, symbol, periods) ==
    IF symbol \notin DOMAIN st THEN None
    ELSE IF Empty(st[symbol]) THEN None
    ELSE IF Len(st[symbol]) <= periods THEN Some(st[symbol])
    ELSE Some(Tail_(st[symbol], periods))

\* has_data
HasData(st, symbol) == symbol \in DOMAIN st /\ ~Empty(st[symbol])

\* get_storage_stats: symbols_count, total_records, symbols, per-symbol records
RECURSIVE SumLen(_, _)
SumLen(st, S) ==
    IF S = {} THEN 0
    ELSE LET s == CHOOSE x \in S : TRUE IN Len(st[s]) + SumLen(st, S \ {s})

GetStorageStats(st, last) ==
    [symbols_count  |-> Cardinality(DOMAIN st),
     total_records  |-> SumLen(st, DOMAIN st),
     symbols        |-> DOMAIN st,
     retention_hours |-> RetentionHours,
     last_cleanup   |-> last,
     symbol_details |-> [s \in {x \in DOMAIN st : ~Empty(st[x])} |->
                            [records |-> Len(st[s]),
                             latest_price |-> st[s][Len(st[s])].close]]]

TsOf(df) == {df[i].ts : i \in 1..Len(df)}

\* get_latest_price: float(data['Close'].iloc[-1])
GetLatestPriceUnchecked(st, symbol) ==
    IF symbol \notin DOMAIN st THEN [error |-> "KeyError"]
    ELSE IF Empty(st[symbol]) THEN [error |-> "IndexError"]
    ELSE Some(st[symbol][Len(st[symbol])].close)

GetLatestPrice(st, symbol) ==
    IF symbol \notin DOMAIN st THEN None
    ELSE IF Empty(st[symbol]) THEN None
    ELSE Some(st[symbol][Len(st[symbol])].close)

\* Python's max(a, b) and min(a, b): the first argument unless the second is
\* strictly greater (smaller).
PyMax(a, b) == IF RLt(a, b) THEN b ELSE a
PyMin(a, b) == IF RLt(b, a) THEN b ELSE a

\* MarketData.__post_init__: the checks, in their order.  The prices are
\* floats, the volume is an int.
MarketData(symbol, timestamp, open, high, low, close, volume) ==
    IF symbol = "" THEN [error |-> "ValueError", message |-> "Symbol cannot be empty"]
    ELSE IF \E price \in {open, high, low, close} : RLe(price, Rat(0))
    THEN [error |-> "ValueError", message |-> "All prices must be positive"]
    ELSE IF \/ RLt(high, PyMax(open, close))
            \/ RLt(PyMin(open, close), low)
    THEN [error |-> "ValueError",
          message |-> "High/Low prices are inconsistent with Open/Close"]
    ELSE IF volume < 0
    THEN [error |-> "ValueError", message |-> "Volume cannot be negative"]
    ELSE [symbol |-> symbol, timestamp |-> timestamp, open |-> open, high |-> high,
          low |-> low, close |-> close, volume |-> volume]

\* get_latest_data_point: the MarketData built from data.iloc[-1], or None when
\* its construction raises.  A row of the model has Open = High = Low = Close
\* and Volume = 0; float(...) makes each price a float.
GetLatestDataPoint(st, symbol) ==
    IF symbol \notin DOMAIN st THEN None
    ELSE IF Empty(st[symbol]) THEN None
    ELSE LET latest_row == st[symbol][Len(st[symbol])]
             built == MarketData(symbol, latest_row.ts, Rat(latest_row.close),
                                 Rat(latest_row.close), Rat(latest_row.close),
                                 Rat(latest_row.close), 0)
         IN  IF "error" \in DOMAIN built THEN None ELSE Some(built)

\* get_data_range: mask = (data.index >= start_time) & (data.index <= end_time)
GetDataRangeOpenEnd(st, symbol, start_time, end_time) ==
    IF symbol \notin DOMAIN st THEN None
    ELSE IF Empty(st[symbol]) THEN None
    ELSE LET data == st[symbol]
             mask(i) == data[i].ts >= start_time /\ data[i].ts < end_time
             filtered_data == Keep(data, mask, 1)
         IN  IF ~Empty(filtered_data) THEN Some(filtered_data) ELSE None

GetDataRange(st, symbol, start_time, end_time) ==
    IF symbol \notin DOMAIN st THEN None
    ELSE IF Empty(st[symbol]) THEN None
    ELSE LET data == st[symbol]
             mask(i) == data[i].ts >= start_time /\ data[i].ts <= end_time
             filtered_data == Keep(data, mask, 1)
         IN  IF ~Empty(filtered_data) THEN Some(filtered_data) ELSE None

\* self._storage[symbol].index.max()
RECURSIVE IndexMax(_)
IndexMax(df) ==
    IF Len(df) = 1 THEN df[1].ts
    ELSE LET m == IndexMax(Tail(df)) IN IF df[1].ts >= m THEN df[1].ts ELSE m

\* get_data_age: datetime.now() - latest_timestamp
GetDataAge(st, symbol, t) ==
    IF symbol \notin DOMAIN st THEN None
    ELSE IF Empty(st[symbol]) THEN None
    ELSE Some(t - IndexMax(st[symbol]))

\* clear_symbol_data: the value returned
ClearSymbolFound(st, symbol) == symbol \in DOMAIN st

---------------------------------------------------------------------------
(* The calls of the store, statement by statement.  Each thread runs one   *)
(* call at a time; pc[t] is the statement thread t executes next, frame[t] *)
(* holds the call's arguments and locals.  A step is one statement outside *)
(* the lock, or a piece of a critical section.  ret is what the step just  *)
(* taken returned to its caller (NoCall when it ended no call), swept the  *)
(* sweep just made (NoSweep once another statement has run).               *)

NoCall == [op |-> "none", value |-> None]
NoFrame == [op |-> "none"]
NoSweep == [valid |-> FALSE]
NoResult == [op |-> "none"]
NoFields == <<>>
NoFetch == [pc |-> "none"]

\* SignalCalculator.__init__(self, ema_length: int = 15)
DefaultEmaLength == 15

InitStore ==
    /\ storage = EmptyDict
    /\ last_cleanup = 0          \* self._last_cleanup = datetime.now()
    /\ now = 0
    /\ ret = NoCall
    /\ lock = NoThread
    /\ pc = [t \in Threads |-> "idle"]
    /\ frame = [t \in Threads |-> NoFrame]
    /\ calls = [t \in Threads |-> 0]
    /\ written = [s \in Symbols |-> {}]
    /\ swept = NoSweep
    /\ autoStart = None
    /\ sweepEnd = None
    /\ series = <<>>
    /\ ema_length = DefaultEmaLength
    /\ result = NoResult
    /\ bars = <<>>
    /\ levels = <<>>
    /\ held = None
    /\ sharedWith = {}
    /\ fields = NoFields
    /\ fetch = NoFetch

\* The clock advances between any two statements.
Tick ==
    /\ now < MaxNow
    /\ now' = now + 1
    /\ UNCHANGED <<storeVars, ret, threadVars, histVars, calcVars, callerVars, ioVars>>

\* threading.Lock: `with self._data_lock` enters only when no thread holds it.
LockAlwaysFree(l) == TRUE

LockFree(l) == l = NoThread

\* DataFrame.copy(): a new object with the same rows.
CallerObject == "caller"    \* the object the caller holds
StoredObject == "stored"    \* the object bound to self._storage[symbol]
NewObject == "new"          \* an object nobody else refers to

CopySameObject(object) == object

Copy(object) == NewObject

Return(t) ==
    /\ pc' = [pc EXCEPT ![t] = "idle"]
    /\ frame' = [frame EXCEPT ![t] = NoFrame]

Goto(t, label) == pc' = [pc EXCEPT ![t] = label]

\* with self._data_lock: (entering)
Acquire(t, from, to) ==
    /\ pc[t] = from
    /\ LockFree(lock)
    /\ lock' = t
    /\ Goto(t, to)
    /\ ret' = NoCall
    /\ swept' = NoSweep
    /\ UNCHANGED <<storeVars, now, frame, written, autoStart, sweepEnd, calls,
                   calcVars, callerVars, ioVars>>

\* What store_data(symbol, data) returns
StoreDataReturn(symbol, data) ==
    [op |-> "store_data", symbol |-> symbol, rows |-> Len(data), value |-> None]

\* store_data without lines 45-47
StoreDataEnterNoEarlyReturn(t, symbol, data) ==
    /\ pc[t] = "idle"
    /\ ret' = NoCall
    /\ Goto(t, "sd_lock")
    /\ frame' = [frame EXCEPT ![t] =
                    [op |-> "store_data", symbol |-> symbol, data |-> data]]
    /\ swept' = NoSweep
    /\ UNCHANGED <<storeVars, now, lock, written, autoStart, sweepEnd, calcVars, ioVars>>

\* store_data is called, lines 45-47: the empty batch returns before the lock.
\* (Who counts the call, and what the caller does with data, is said where
\* the call is made.)
StoreDataEnter(t, symbol, data) ==
    /\ pc[t] = "idle"
    /\ IF Empty(data)
       THEN /\ ret' = StoreDataReturn(symbol, data)
            /\ UNCHANGED <<pc, frame>>
       ELSE /\ ret' = NoCall
            /\ Goto(t, "sd_lock")
            /\ frame' = [frame EXCEPT ![t] =
                            [op |-> "store_data", symbol |-> symbol, data |-> data]]
    /\ swept' = NoSweep
    /\ UNCHANGED <<storeVars, now, lock, written, autoStart, sweepEnd, calcVars, ioVars>>

\* line 49
StoreAcquire(t) == Acquire(t, "sd_lock", "sd_read")

\* lines 50-52: if symbol in self._storage: existing_data = self._storage[symbol]
StoreRead(t) ==
    /\ pc[t] = "sd_read"
    /\ frame' = [frame EXCEPT ![t] =
                    [op |-> "store_data", symbol |-> frame[t].symbol,
                     data |-> frame[t].data,
                     existing |-> Existing(storage, frame[t].symbol)]]
    /\ Goto(t, "sd_write")
    /\ ret' = NoCall
    /\ swept' = NoSweep
    /\ UNCHANGED <<storeVars, now, lock, written, autoStart, sweepEnd, calls,
                   calcVars, callerVars, ioVars>>

\* The object bound to self._storage[symbol] by lines 55-63: pd.concat builds
\* a new one, and the first batch of a symbol is copied.
StoredBy(existing) ==
    IF existing # None THEN NewObject ELSE Copy(CallerObject)

\* store_data calling _maybe_cleanup inside its `with` block
StoreWriteKeepsLock(t) ==
    /\ pc[t] = "sd_write"
    /\ storage' = DictSet(storage, frame[t].symbol,
                          Combine(frame[t].existing, frame[t].data))
    /\ written' = [written EXCEPT ![frame[t].symbol] = @ \cup TsOf(frame[t].data)]
    /\ sharedWith' = IF StoredBy(frame[t].existing) = CallerObject
                     THEN sharedWith \cup {frame[t].symbol}
                     ELSE sharedWith \ {frame[t].symbol}
    /\ Goto(t, "mc_check")
    /\ ret' = NoCall
    /\ swept' = NoSweep
    /\ UNCHANGED <<last_cleanup, now, lock, frame, autoStart, sweepEnd, calls,
                   calcVars, held, ioVars>>

\* lines 55-64: self._storage[symbol] = ..., and the lock is released.
StoreWrite(t) ==
    /\ pc[t] = "sd_write"
    /\ storage' = DictSet(storage, frame[t].symbol,
                          Combine(frame[t].existing, frame[t].data))
    /\ written' = [written EXCEPT ![frame[t].symbol] = @ \cup TsOf(frame[t].data)]
    /\ sharedWith' = IF StoredBy(frame[t].existing) = CallerObject
                     THEN sharedWith \cup {frame[t].symbol}
                     ELSE sharedWith \ {frame[t].symbol}
    /\ lock' = IF lock = t THEN NoThread ELSE lock
    /\ Goto(t, "mc_check")
    /\ ret' = NoCall
    /\ swept' = NoSweep
    /\ UNCHANGED <<last_cleanup, now, frame, autoStart, sweepEnd, calls,
                   calcVars, held, ioVars>>

\* _maybe_cleanup, line 210, called at line 67 after the lock is released:
\* either cleanup_old_data is called, or store_data returns.
MaybeCleanup(t) ==
    /\ pc[t] = "mc_check"
    /\ IF CleanupDue(now, last_cleanup)
       THEN /\ Goto(t, "cl_cutoff")
            /\ frame' = [frame EXCEPT ![t] =
                            [op |-> "cleanup_old_data", auto |-> TRUE,
                             call |-> StoreDataReturn(frame[t].symbol, frame[t].data)]]
            /\ autoStart' = Some(now)
            /\ ret' = NoCall
       ELSE /\ Return(t)
            /\ ret' = StoreDataReturn(frame[t].symbol, frame[t].data)
            /\ UNCHANGED autoStart
    /\ swept' = NoSweep
    /\ UNCHANGED <<storeVars, now, lock, written, sweepEnd, calls,
                   calcVars, callerVars, ioVars>>

\* cleanup_old_data is called by the thread itself.
CleanupEnter(t) ==
    /\ pc[t] = "idle"
    /\ Goto(t, "cl_cutoff")
    /\ frame' = [frame EXCEPT ![t] =
                    [op |-> "cleanup_old_data", auto |-> FALSE,
                     call |-> [op |-> "cleanup_old_data", value |-> None]]]
    /\ ret' = NoCall
    /\ swept' = NoSweep
    /\ UNCHANGED <<storeVars, now, lock, written, autoStart, sweepEnd,
                   calcVars, callerVars, ioVars>>

\* line 172: cutoff_time = datetime.now() - timedelta(hours=self.retention_hours)
CleanupCutoff(t) ==
    /\ pc[t] = "cl_cutoff"
    /\ frame' = [frame EXCEPT ![t] =
                    [op |-> "cleanup_old_data", auto |-> frame[t].auto,
                     call |-> frame[t].call, cutoff_time |-> CutoffTime(now)]]
    /\ Goto(t, "cl_lock")
    /\ ret' = NoCall
    /\ swept' = NoSweep
    /\ UNCHANGED <<storeVars, now, lock, written, autoStart, sweepEnd, calls,
                   calcVars, callerVars, ioVars>>

\* line 174
CleanupAcquire(t) == Acquire(t, "cl_lock", "cl_body")

\* lines 175-201: the sweep, and the lock is released.  Boolean indexing
\* (line 183) builds new objects.
CleanupBody(t) ==
    /\ pc[t] = "cl_body"
    /\ storage' = Sweep(storage, frame[t].cutoff_time)
    /\ swept' = [valid |-> TRUE, before |-> storage, cutoff |-> frame[t].cutoff_time]
    /\ sharedWith' = {}
    /\ lock' = IF lock = t THEN NoThread ELSE lock
    /\ Goto(t, "cl_stamp")
    /\ ret' = NoCall
    /\ UNCHANGED <<last_cleanup, now, frame, written, autoStart, sweepEnd, calls,
                   calcVars, held, ioVars>>

\* line 203: self._last_cleanup = datetime.now(), and cleanup_old_data
\* returns; so does the store_data that called it.
CleanupStamp(t) ==
    /\ pc[t] = "cl_stamp"
    /\ last_cleanup' = now
    /\ sweepEnd' = Some(now)
    /\ ret' = frame[t].call
    /\ Return(t)
    /\ UNCHANGED <<storage, now, lock, written, swept, autoStart, calls,
                   calcVars, callerVars, ioVars>>

\* The statements of a store_data or cleanup_old_data call in progress on
\* thread t.
StoreStep(t) ==
    \/ StoreAcquire(t)
    \/ StoreRead(t)
    \/ StoreWrite(t)
    \/ MaybeCleanup(t)
    \/ CleanupCutoff(t)
    \/ CleanupAcquire(t)
    \/ CleanupBody(t)
    \/ CleanupStamp(t)

---------------------------------------------------------------------------
(* The store driven by one caller, whose store_data and cleanup_old_data   *)
(* calls run statement by statement, the clock running on in between.  The *)
(* other calls are one critical section each, taken in one step when the   *)
(* lock is free; the caller makes them between its calls.  (Calls made by  *)
(* several threads at once are those of SpecThreads.)                      *)

\* The thread of the caller.
Caller == "t1"

\* store_data(symbol, data)
StoreData(symbol, data) ==
    /\ StoreDataEnter(Caller, symbol, data)
    /\ UNCHANGED <<calls, callerVars>>

\* cleanup_old_data()
CleanupOldData ==
    /\ CleanupEnter(Caller)
    /\ UNCHANGED calls

\* get_historical_data(symbol, periods)
GetHistorical(symbol, periods) ==
    /\ LockFree(lock)
    /\ ret' = [op |-> "get_historical_data", symbol |-> symbol, periods |-> periods,
               value |-> GetHistoricalData(storage, symbol, periods)]
    /\ swept' = NoSweep
    /\ UNCHANGED <<storeVars, now, threadVars, written, autoStart, sweepEnd, calcVars, callerVars, ioVars>>

\* has_data(symbol)
HasDataCall(symbol) ==
    /\ LockFree(lock)
    /\ ret' = [op |-> "has_data", symbol |-> symbol, value |-> HasData(storage, symbol)]
    /\ swept' = NoSweep
    /\ UNCHANGED <<storeVars, now, threadVars, written, autoStart, sweepEnd, calcVars, callerVars, ioVars>>

\* get_storage_stats()
GetStats ==
    /\ LockFree(lock)
    /\ ret' = [op |-> "get_storage_stats", value |-> GetStorageStats(storage, last_cleanup)]
    /\ swept' = NoSweep
    /\ UNCHANGED <<storeVars, now, threadVars, written, autoStart, sweepEnd, calcVars, callerVars, ioVars>>

\* clear_symbol_data(symbol)
ClearSymbolData(symbol) ==
    /\ LockFree(lock)
    /\ ret' = [op |-> "clear_symbol_data", symbol |-> symbol,
               value |-> ClearSymbolFound(storage, symbol)]
    /\ storage' = DictDel(storage, {symbol})
    /\ written' = [written EXCEPT ![symbol] = {}]
    /\ swept' = NoSweep
    /\ UNCHANGED <<last_cleanup, now, threadVars, autoStart, sweepEnd, calcVars, callerVars, ioVars>>

\* clear_all_data()
ClearAllData ==
    /\ LockFree(lock)
    /\ ret' = [op |-> "clear_all_data", value |-> None]
    /\ storage' = EmptyDict
    /\ written' = [s \in Symbols |-> {}]
    /\ swept' = NoSweep
    /\ UNCHANGED <<last_cleanup, now, threadVars, autoStart, sweepEnd, calcVars, callerVars, ioVars>>

NextStore ==
    \/ Tick
    \/ \E symbol \in Symbols, data \in Frames : StoreData(symbol, data)
    \/ CleanupOldData
    \/ StoreStep(Caller)
    \/ /\ pc[Caller] = "idle"
       /\ \/ \E symbol \in Symbols, periods \in 1..MaxPeriods :
                 GetHistorical(symbol, periods)
          \/ \E symbol \in Symbols : HasDataCall(symbol)
          \/ GetStats
          \/ \E symbol \in Symbols : ClearSymbolData(symbol)
          \/ ClearAllData

Spec == InitStore /\ [][NextStore]_vars

---------------------------------------------------------------------------
(* The read-only calls of the store, with the same caller. *)

\* get_data_range(symbol, start_time, end_time)
GetDataRangeCall(symbol, start_time, end_time) ==
    /\ LockFree(lock)
    /\ ret' = [op |-> "get_data_range", symbol |-> symbol, start_time |-> start_time,
               end_time |-> end_time,
               value |-> GetDataRange(storage, symbol, start_time, end_time)]
    /\ swept' = NoSweep
    /\ UNCHANGED <<storeVars, now, threadVars, written, autoStart, sweepEnd, calcVars,
                   callerVars, ioVars>>

\* get_latest_price(symbol)
GetLatestPriceCall(symbol) ==
    /\ LockFree(lock)
    /\ ret' = [op |-> "get_latest_price", symbol |-> symbol,
               value |-> GetLatestPrice(storage, symbol)]
    /\ swept' = NoSweep
    /\ UNCHANGED <<storeVars, now, threadVars, written, autoStart, sweepEnd, calcVars,
                   callerVars, ioVars>>

\* get_latest_data_point(symbol)
GetLatestDataPointCall(symbol) ==
    /\ LockFree(lock)
    /\ ret' = [op |-> "get_latest_data_point", symbol |-> symbol,
               value |-> GetLatestDataPoint(storage, symbol)]
    /\ swept' = NoSweep
    /\ UNCHANGED <<storeVars, now, threadVars, written, autoStart, sweepEnd, calcVars,
                   callerVars, ioVars>>

\* get_data_age(symbol)
GetDataAgeCall(symbol) ==
    /\ LockFree(lock)
    /\ ret' = [op |-> "get_data_age", symbol |-> symbol,
               value |-> GetDataAge(storage, symbol, now)]
    /\ swept' = NoSweep
    /\ UNCHANGED <<storeVars, now, threadVars, written, autoStart, sweepEnd, calcVars,
                   callerVars, ioVars>>

NextQueries ==
    \/ Tick
    \/ \E symbol \in Symbols, data \in Frames : StoreData(symbol, data)
    \/ CleanupOldData
    \/ StoreStep(Caller)
    \/ /\ pc[Caller] = "idle"
       /\ \/ \E symbol \in Symbols : ClearSymbolData(symbol)
          \/ \E symbol \in Symbols, periods \in 1..MaxPeriods :
                 GetHistorical(symbol, periods)
          \/ \E symbol \in Symbols, start_time \in 0..MaxTs, end_time \in 0..MaxTs :
                 GetDataRangeCall(symbol, start_time, end_time)
          \/ \E symbol \in Symbols : GetLatestPriceCall(symbol)
          \/ \E symbol \in Symbols : GetLatestDataPointCall(symbol)
          \/ \E symbol \in Symbols : GetDataAgeCall(symbol)

SpecQueries == InitStore /\ [][NextQueries]_vars

---------------------------------------------------------------------------
(* Object identity.  The caller holds one DataFrame object at a time: the   *)
(* batch it passed to store_data or the result of its last query, which it  *)
(* may change in place between its calls.  sharedWith is the set of symbols *)
(* whose entry in _storage is that very object.                             *)

Holding(df, op, symbol) ==
    Some([df |-> df, op |-> op, symbol |-> symbol, mutated |-> FALSE])

\* store_data(symbol, data) with the caller keeping its reference to data.
RefStoreData(symbol, data) ==
    /\ StoreDataEnter(Caller, symbol, data)
    /\ held' = Holding(data, "store_data", symbol)
    /\ sharedWith' = {}
    /\ UNCHANGED calls

\* get_historical_data(symbol, periods) with the caller keeping the result:
\* data.copy() (line 92) or data.tail(periods).copy() (line 94).
RefGetHistoricalData(symbol, periods) ==
    LET value == GetHistoricalData(storage, symbol, periods)
        returned == IF Len(storage[symbol]) <= periods
                    THEN Copy(StoredObject)
                    ELSE Copy(NewObject)
    IN  /\ pc[Caller] = "idle"
        /\ LockFree(lock)
        /\ IF value = None
           THEN held' = None /\ sharedWith' = {}
           ELSE /\ held' = Holding(value[1], "get_historical_data", symbol)
                /\ sharedWith' = IF returned = StoredObject THEN {symbol} ELSE {}
        /\ ret' = [op |-> "get_historical_data", symbol |-> symbol,
                   periods |-> periods, value |-> value]
        /\ swept' = NoSweep
        /\ UNCHANGED <<storeVars, now, threadVars, written, autoStart, sweepEnd,
                       calcVars, ioVars>>

\* get_data_range(symbol, start_time, end_time) with the caller keeping the
\* result: data.loc[mask] is a new object, and line 166 copies it.
RefGetDataRange(symbol, start_time, end_time) ==
    LET value == GetDataRange(storage, symbol, start_time, end_time)
        returned == Copy(NewObject)
    IN  /\ pc[Caller] = "idle"
        /\ LockFree(lock)
        /\ IF value = None
           THEN held' = None /\ sharedWith' = {}
           ELSE /\ held' = Holding(value[1], "get_data_range", symbol)
                /\ sharedWith' = IF returned = StoredObject THEN {symbol} ELSE {}
        /\ ret' = [op |-> "get_data_range", symbol |-> symbol,
                   start_time |-> start_time, end_time |-> end_time, value |-> value]
        /\ swept' = NoSweep
        /\ UNCHANGED <<storeVars, now, threadVars, written, autoStart, sweepEnd,
                       calcVars, ioVars>>

\* Between two of its calls the caller changes the object it holds in place;
\* every name bound to that object sees the change.
MutateHeld(df) ==
    /\ pc[Caller] = "idle"
    /\ held # None
    /\ df # held[1].df
    /\ held' = Some([held[1] EXCEPT !.df = df, !.mutated = TRUE])
    /\ storage' = [s \in DOMAIN storage |-> IF s \in sharedWith THEN df ELSE storage[s]]
    /\ ret' = NoCall
    /\ swept' = NoSweep
    /\ UNCHANGED <<last_cleanup, sharedWith, now, threadVars, written, autoStart,
                   sweepEnd, calcVars, ioVars>>

\* The caller works on one symbol.
RefSymbols == {"EURUSD"}

NextRefs ==
    \/ Tick
    \/ \E symbol \in RefSymbols, data \in Frames : RefStoreData(symbol, data)
    \/ StoreStep(Caller)
    \/ \E symbol \in RefSymbols, periods \in 1..MaxPeriods :
           RefGetHistoricalData(symbol, periods)
    \/ \E symbol \in RefSymbols, start_time \in 0..MaxTs, end_time \in 0..MaxTs :
           RefGetDataRange(symbol, start_time, end_time)
    \/ \E df \in Frames : MutateHeld(df)

SpecRefs == InitStore /\ [][NextRefs]_vars

---------------------------------------------------------------------------
(* The store called from several threads, each making a bounded number of  *)
(* calls, every one of them statement by statement.                        *)

\* The batches a thread stores: one row, its close naming the writer.
WriterId(t) == IF t = "t1" THEN 1 ELSE 2
ThreadFrames(t) == {<<>>} \cup {<<[ts |-> ts, close |-> WriterId(t)]>> : ts \in 0..MaxTs}

\* Thread t makes one more call.
Counted(t) ==
    /\ calls[t] < MaxCalls
    /\ calls' = [calls EXCEPT ![t] = @ + 1]

CallStoreData(t, symbol, data) ==
    /\ Counted(t)
    /\ StoreDataEnter(t, symbol, data)
    /\ UNCHANGED callerVars

CallCleanupOldData(t) ==
    /\ Counted(t)
    /\ CleanupEnter(t)

\* get_storage_stats
CallGetStorageStats(t) ==
    /\ pc[t] = "idle"
    /\ Counted(t)
    /\ Goto(t, "gs_lock")
    /\ frame' = [frame EXCEPT ![t] = [op |-> "get_storage_stats"]]
    /\ ret' = NoCall
    /\ swept' = NoSweep
    /\ UNCHANGED <<storeVars, now, lock, written, autoStart, sweepEnd,
                   calcVars, callerVars, ioVars>>

StatsAcquire(t) == Acquire(t, "gs_lock", "gs_body")

\* lines 221-240 read self._storage and self._last_cleanup; the lock is
\* released, and line 242 returns the stats.
StatsBody(t) ==
    /\ pc[t] = "gs_body"
    /\ ret' = [op |-> "get_storage_stats",
               value |-> GetStorageStats(storage, last_cleanup)]
    /\ lock' = IF lock = t THEN NoThread ELSE lock
    /\ Return(t)
    /\ swept' = NoSweep
    /\ UNCHANGED <<storeVars, now, written, autoStart, sweepEnd, calls,
                   calcVars, callerVars, ioVars>>

\* get_historical_data
CallGetHistoricalData(t, symbol) ==
    /\ pc[t] = "idle"
    /\ Counted(t)
    /\ Goto(t, "gh_lock")
    /\ frame' = [frame EXCEPT ![t] = [op |-> "get_historical_data", symbol |-> symbol]]
    /\ ret' = NoCall
    /\ swept' = NoSweep
    /\ UNCHANGED <<storeVars, now, lock, written, autoStart, sweepEnd,
                   calcVars, callerVars, ioVars>>

HistoricalAcquire(t) == Acquire(t, "gh_lock", "gh_body")

\* periods: int = 100
DefaultPeriods == 100

\* lines 81-94 read self._storage and return the rows (periods left at its
\* default); the lock is released on return.
HistoricalBody(t) ==
    /\ pc[t] = "gh_body"
    /\ ret' = [op |-> "get_historical_data", symbol |-> frame[t].symbol,
               periods |-> DefaultPeriods,
               value |-> GetHistoricalData(storage, frame[t].symbol, DefaultPeriods)]
    /\ lock' = IF lock = t THEN NoThread ELSE lock
    /\ Return(t)
    /\ swept' = NoSweep
    /\ UNCHANGED <<storeVars, now, written, autoStart, sweepEnd, calls,
                   calcVars, callerVars, ioVars>>

\* clear_symbol_data
CallClearSymbolData(t, symbol) ==
    /\ pc[t] = "idle"
    /\ Counted(t)
    /\ Goto(t, "cs_lock")
    /\ frame' = [frame EXCEPT ![t] = [op |-> "clear_symbol_data", symbol |-> symbol]]
    /\ ret' = NoCall
    /\ swept' = NoSweep
    /\ UNCHANGED <<storeVars, now, lock, written, autoStart, sweepEnd,
                   calcVars, callerVars, ioVars>>

ClearAcquire(t) == Acquire(t, "cs_lock", "cs_body")

\* lines 255-261: del self._storage[symbol]; the lock is released on return.
ClearBody(t) ==
    /\ pc[t] = "cs_body"
    /\ ret' = [op |-> "clear_symbol_data", symbol |-> frame[t].symbol,
               value |-> ClearSymbolFound(storage, frame[t].symbol)]
    /\ storage' = DictDel(storage, {frame[t].symbol})
    /\ written' = [written EXCEPT ![frame[t].symbol] = {}]
    /\ lock' = IF lock = t THEN NoThread ELSE lock
    /\ Return(t)
    /\ swept' = NoSweep
    /\ UNCHANGED <<last_cleanup, now, autoStart, sweepEnd, calls,
                   calcVars, callerVars, ioVars>>

NextThreads ==
    \/ Tick
    \/ \E t \in Threads :
        \/ \E symbol \in Symbols, data \in ThreadFrames(t) : CallStoreData(t, symbol, data)
        \/ CallCleanupOldData(t)
        \/ StoreStep(t)
        \/ CallGetStorageStats(t)
        \/ StatsAcquire(t)
        \/ StatsBody(t)
        \/ \E symbol \in Symbols : CallGetHistoricalData(t, symbol)
        \/ HistoricalAcquire(t)
        \/ HistoricalBody(t)
        \/ \E symbol \in Symbols : CallClearSymbolData(t, symbol)
        \/ ClearAcquire(t)
        \/ ClearBody(t)

SpecThreads == InitStore /\ [][NextThreads]_vars

\* get_latest_data_point
CallGetLatestDataPoint(t, symbol) ==
    /\ pc[t] = "idle"
    /\ Counted(t)
    /\ Goto(t, "lp_lock")
    /\ frame' = [frame EXCEPT ![t] = [op |-> "get_latest_data_point", symbol |-> symbol]]
    /\ ret' = NoCall
    /\ swept' = NoSweep
    /\ UNCHANGED <<storeVars, now, lock, written, autoStart, sweepEnd,
                   calcVars, callerVars, ioVars>>

LatestAcquire(t) == Acquire(t, "lp_lock", "lp_body")

\* lines 124-142: every return is inside the `with` block, which releases the
\* lock: None for an unknown symbol, the MarketData, or None from the except
\* clause when its construction raised.
LatestBody(t) ==
    /\ pc[t] = "lp_body"
    /\ ret' = [op |-> "get_latest_data_point", symbol |-> frame[t].symbol,
               value |-> GetLatestDataPoint(storage, frame[t].symbol)]
    /\ lock' = IF lock = t THEN NoThread ELSE lock
    /\ Return(t)
    /\ swept' = NoSweep
    /\ UNCHANGED <<storeVars, now, written, autoStart, sweepEnd, calls,
                   calcVars, callerVars, ioVars>>

\* The batches stored while the locking is observed: those of ThreadFrames, and
\* a bar whose prices are 0, from which no MarketData can be built.
LockFrames(t) == {<<>>} \cup {<<[ts |-> 0, close |-> c]>> : c \in {0, WriterId(t)}}

\* The statements of a call in progress on thread t.
ThreadStep(t) ==
    \/ StoreStep(t)
    \/ LatestAcquire(t)
    \/ LatestBody(t)

\* calls each thread makes while the locking is observed
MaxLockCalls == 1

NextLocking ==
    \/ Tick
    \/ \E t \in Threads :
        \/ /\ calls[t] < MaxLockCalls
           /\ \/ \E symbol \in RefSymbols, data \in LockFrames(t) :
                     CallStoreData(t, symbol, data)
              \/ CallCleanupOldData(t)
              \/ \E symbol \in RefSymbols : CallGetLatestDataPoint(t, symbol)
        \/ ThreadStep(t)

SpecLocking == InitStore /\ [][NextLocking]_vars

\* A thread that can run its next statement is eventually scheduled.
FairSpecLocking == SpecLocking /\ \A t \in Threads : WF_vars(ThreadStep(t))

---------------------------------------------------------------------------
(* SignalCalculator.  Prices are exact rationals <<n, d>> with d > 0, kept *)
(* in lowest terms; the close column holds whole numbers of price units.   *)

MaxBars == 4        \* rows of the DataFrame passed to the calculator
MaxPrice == 3       \* close prices range over 1..MaxPrice
MaxLength == 3      \* ema_length and the length argument range up to MaxLength

\* The close column as prices.
Close(df) == [i \in 1..Len(df) |-> Rat(df[i])]

\* Series.ewm(span=span, adjust=False): alpha = 2 / (span + 1)
EwmAlphaHalved(span) == Norm(1, span + 1)

EwmAlpha(span) == Norm(2, span + 1)

\* Series.ewm(span=span, adjust=False).mean():
\* y[0] = x[0], y[i] = (1 - alpha) * y[i-1] + alpha * x[i]
\* (y holds the values computed so far)
RECURSIVE EwmFrom(_, _, _)
EwmFrom(x, alpha, y) ==
    IF Len(y) >= Len(x) THEN y
    ELSE LET i == Len(y) + 1
         IN  EwmFrom(x, alpha,
                     Append(y, RAdd(RMul(RSub(Rat(1), alpha), y[i - 1]), RMul(alpha, x[i]))))

EwmMean(x, span) == EwmFrom(x, EwmAlpha(span), <<x[1]>>)

ValueError(message) == [error |-> "ValueError", message |-> message]
Raised(r) == "error" \in DOMAIN r

\* A call ended in raise ValueError(...)
ValidationError(out) == Raised(out) /\ out.error = "ValueError"

\* SignalCalculator.__init__(ema_length)
SignalCalculatorInit(length) ==
    IF length <= 0 THEN ValueError("EMA length must be positive")
    ELSE [ema_length |-> length]

\* calculate_ema(data, length): length None means self.ema_length
CalculateEma(df, length, self_ema_length) ==
    IF Len(df) = 0 THEN ValueError("Data cannot be empty")
    ELSE LET len == IF length # None THEN length[1] ELSE self_ema_length
         IN  IF len <= 0 THEN ValueError("EMA length must be positive")
             ELSE [value |-> EwmMean(Close(df), len)]

\* calculate_zlma, steps 2 and 3: adjusted_close = close + (close - ema_close)
AdjustedCloseNoLag(close, ema_close) == close

AdjustedCloseMinus(close, ema_close) ==
    [i \in 1..Len(close) |-> RSub(close[i], RSub(close[i], ema_close[i]))]

AdjustedClose(close, ema_close) ==
    [i \in 1..Len(close) |-> RAdd(close[i], RSub(close[i], ema_close[i]))]

\* calculate_zlma(data, length)
CalculateZlma(df, length, self_ema_length) ==
    IF Len(df) = 0 THEN ValueError("Data cannot be empty")
    ELSE LET len == IF length # None THEN length[1] ELSE self_ema_length
         IN  IF len <= 0 THEN ValueError("EMA length must be positive")
             ELSE LET ema_close == CalculateEma(df, Some(len), self_ema_length).value
                      adjusted_close == AdjustedClose(Close(df), ema_close)
                  IN  [value |-> EwmMean(adjusted_close, len)]

\* _calculate_signal_confidence
ConfidenceUnbounded(current_zlma, current_ema, prev_zlma, prev_ema) ==
    LET current_separation == RAbs(RSub(current_zlma, current_ema))
        avg_price == RDiv(RAdd(current_zlma, current_ema), Rat(2))
        separation_pct == IF RLt(Rat(0), avg_price)
                          THEN RDiv(current_separation, avg_price) ELSE Rat(0)
        prev_separation == RAbs(RSub(prev_zlma, prev_ema))
        prev_avg_price == RDiv(RAdd(prev_zlma, prev_ema), Rat(2))
        prev_separation_pct == IF RLt(Rat(0), prev_avg_price)
                               THEN RDiv(prev_separation, prev_avg_price) ELSE Rat(0)
        base == RAdd(Norm(1, 2), RMul(separation_pct, Rat(100)))
    IN  IF RLt(Rat(0), prev_separation_pct)
        THEN RAdd(base, RMul(RDiv(separation_pct, prev_separation_pct), Norm(1, 10)))
        ELSE base

CalculateSignalConfidence(current_zlma, current_ema, prev_zlma, prev_ema) ==
    LET current_separation == RAbs(RSub(current_zlma, current_ema))
        avg_price == RDiv(RAdd(current_zlma, current_ema), Rat(2))
        separation_pct == IF RLt(Rat(0), avg_price)
                          THEN RDiv(current_separation, avg_price) ELSE Rat(0)
        prev_separation == RAbs(RSub(prev_zlma, prev_ema))
        prev_avg_price == RDiv(RAdd(prev_zlma, prev_ema), Rat(2))
        prev_separation_pct == IF RLt(Rat(0), prev_avg_price)
                               THEN RDiv(prev_separation, prev_avg_price) ELSE Rat(0)
        base == RAdd(Norm(1, 2), RMin(RMul(separation_pct, Rat(100)), Norm(3, 10)))
        confidence ==
            IF RLt(Rat(0), prev_separation_pct)
            THEN RAdd(base, RMin(RMul(RDiv(separation_pct, prev_separation_pct),
                                      Norm(1, 10)),
                                 Norm(2, 10)))
            ELSE base
    IN  RMin(RMax(confidence, Rat(0)), Rat(1))

\* _calculate_signal_confidence when the previous pair differs by a rounding
\* error only: prev_separation_pct is positive and so far below separation_pct
\* that decisiveness * 0.1 is beyond its cap of 0.2.
ConfidenceAfterRoundedTie(current_zlma, current_ema) ==
    LET current_separation == RAbs(RSub(current_zlma, current_ema))
        avg_price == RDiv(RAdd(current_zlma, current_ema), Rat(2))
        separation_pct == IF RLt(Rat(0), avg_price)
                          THEN RDiv(current_separation, avg_price) ELSE Rat(0)
        base == RAdd(Norm(1, 2), RMin(RMul(separation_pct, Rat(100)), Norm(3, 10)))
    IN  RMin(RMax(RAdd(base, Norm(2, 10)), Rat(0)), Rat(1))

\* A float64 holds x exactly: the model's values are small, so exactly when the
\* denominator is a power of two.
RECURSIVE PowerOfTwo(_)
PowerOfTwo(d) == d = 1 \/ (d > 1 /\ d % 2 = 0 /\ PowerOfTwo(d \div 2))

Representable(x) == PowerOfTwo(x[2])

\* The sign of zlma - ema as float64 computes the two values.  Values that
\* differ are further apart than any rounding error; two equal values that a
\* float64 holds exactly are computed equal; two equal values that it cannot
\* hold are two roundings, whose order r depends on the order of evaluation.
FloatOrder(zlma, ema, r) ==
    IF RLt(zlma, ema) THEN -1
    ELSE IF RLt(ema, zlma) THEN 1
    ELSE IF Representable(zlma) THEN 0
    ELSE r

\* The rows where rounding decides the order of zlma and ema.
RoundedTies(ema, zlma) ==
    {i \in 1..Len(ema) : ~IsNa(zlma[i]) /\ zlma[i] = ema[i] /\ ~Representable(zlma[i])}

\* The outcomes of rounding over the rows of a frame: -1, 0 or 1 at a rounded
\* tie, and 0 elsewhere.
Roundings(ema, zlma) ==
    {r \in [1..Len(ema) -> {-1, 0, 1}] :
        \A i \in 1..Len(ema) : i \notin RoundedTies(ema, zlma) => r[i] = 0}

\* detect_signals, line 213: prev_zlma <= prev_ema and current_zlma > current_ema
BullishCrossoverStrict(prev_order, current_order) ==
    prev_order < 0 /\ current_order > 0

BullishCrossover(prev_order, current_order) ==
    prev_order <= 0 /\ current_order > 0

\* line 226: prev_zlma >= prev_ema and current_zlma < current_ema
BearishCrossover(prev_order, current_order) ==
    prev_order >= 0 /\ current_order < 0

\* detect_signals, lines 202-236: the scan from row i (1-based; the code's
\* i + 1) to the last row.  A Signal is the plain record of its fields; index,
\* the row it was found at, stands for its timestamp data.index[i].  rounding
\* is the outcome of rounding at each row.
RECURSIVE ScanCrossovers(_, _, _, _, _, _)
ScanCrossovers(df, symbol, ema, zlma, rounding, i) ==
    IF i > Len(df) THEN <<>>
    ELSE LET current_zlma == zlma[i]
             current_ema == ema[i]
             prev_zlma == zlma[i - 1]
             prev_ema == ema[i - 1]
             current_order == FloatOrder(current_zlma, current_ema, rounding[i])
             prev_order == FloatOrder(prev_zlma, prev_ema, rounding[i - 1])
             confidence ==
                 IF prev_order # 0 /\ prev_zlma = prev_ema /\ current_zlma # current_ema
                 THEN ConfidenceAfterRoundedTie(current_zlma, current_ema)
                 ELSE CalculateSignalConfidence(current_zlma, current_ema,
                                                prev_zlma, prev_ema)
             signal(type) ==
                 [symbol |-> symbol, signal_type |-> type, price |-> Rat(df[i]),
                  index |-> i, zlma_value |-> current_zlma, ema_value |-> current_ema,
                  confidence |-> confidence]
             found ==
                 IF IsNa(current_zlma) \/ IsNa(current_ema)
                        \/ IsNa(prev_zlma) \/ IsNa(prev_ema)
                 THEN <<>>
                 ELSE IF BullishCrossover(prev_order, current_order)
                 THEN <<signal("BUY")>>
                 ELSE IF BearishCrossover(prev_order, current_order)
                 THEN <<signal("SELL")>>
                 ELSE <<>>
         IN  found \o ScanCrossovers(df, symbol, ema, zlma, rounding, i + 1)

\* detect_signals(data, symbol), rounding being the outcome of rounding at
\* each row
DetectSignals(df, symbol, self_ema_length, rounding) ==
    IF Len(df) = 0 THEN ValueError("Data cannot be empty")
    ELSE IF Len(df) < self_ema_length
    THEN ValueError("Insufficient data: need at least " \o ToString(self_ema_length)
                        \o " periods")
    ELSE LET ema == CalculateEma(df, None, self_ema_length).value
             zlma == CalculateZlma(df, None, self_ema_length).value
         IN  [value |-> ScanCrossovers(df, symbol, ema, zlma, rounding, 2)]

\* What rounding can do in detect_signals(data, symbol): nothing when the call
\* raises before computing anything.
DetectRoundings(df, self_ema_length) ==
    IF Len(df) = 0 \/ Len(df) < self_ema_length
    THEN {[i \in 1..Len(df) |-> 0]}
    ELSE Roundings(CalculateEma(df, None, self_ema_length).value,
                   CalculateZlma(df, None, self_ema_length).value)

\* calculate_vwap.  A row of its DataFrame holds the calendar date of its
\* index label and its high, low, close and volume columns.  An index that is
\* not a DatetimeIndex (line 70) is the case of every row having date 0.
MaxVwapBars == 3    \* rows of the DataFrame passed to calculate_vwap
MaxVolume == 2      \* volumes range over 0..MaxVolume

\* Two calendar dates, and two bars' worth of prices (typical prices 1 and 2).
SessionDates == {0, 1}
BarPrices == {[high |-> 1, low |-> 1, close |-> 1], [high |-> 3, low |-> 1, close |-> 2]}
VwapRow == {[date |-> d, high |-> p.high, low |-> p.low, close |-> p.close, volume |-> v] :
               d \in SessionDates, p \in BarPrices, v \in 0..MaxVolume}

\* line 58: typical_price = (high + low + close) / 3
TypicalPrice(row) == RDiv(Rat(row.high + row.low + row.close), Rat(3))

\* line 63: price_volume = typical_price * volume
PriceVolume(row) == RMul(TypicalPrice(row), Rat(row.volume))

\* line 67: df['date'] = data.index.date
SessionDateNone(row) == 0

SessionDate(row) == row.date

\* df.groupby('date'): the group keys in ascending order ...
RECURSIVE SortedKeys(_)
SortedKeys(keys) ==
    IF keys = {} THEN <<>>
    ELSE LET least == CHOOSE k \in keys : \A other \in keys : k <= other
         IN  <<least>> \o SortedKeys(keys \ {least})

\* ... and the rows of one group, in the order they have in the frame.
Group(data, date) == SelectSeq(data, LAMBDA row : SessionDate(row) = date)

\* Series.cumsum()
RECURSIVE CumSum(_, _)
CumSum(x, i) == IF i = 0 THEN Rat(0) ELSE RAdd(CumSum(x, i - 1), x[i])

\* lines 76-81: the running ratio of one session, NaN while no volume accrued.
SessionVwap(group) ==
    LET price_volume == [j \in 1..Len(group) |-> PriceVolume(group[j])]
        volume == [j \in 1..Len(group) |-> Rat(group[j].volume)]
    IN  [j \in 1..Len(group) |->
            LET cum_price_volume == CumSum(price_volume, j)
                cum_volume == CumSum(volume, j)
            IN  IF RLt(Rat(0), cum_volume) THEN RDiv(cum_price_volume, cum_volume) ELSE NaN]

\* lines 73-82: vwap_values, extended session by session in group order.
RECURSIVE VwapValues(_, _, _)
VwapValues(data, keys, k) ==
    IF k > Len(keys) THEN <<>>
    ELSE SessionVwap(Group(data, keys[k])) \o VwapValues(data, keys, k + 1)

\* calculate_vwap(data): line 85 lays vwap_values over the index of data, value
\* number i at row number i.
CalculateVwap(data) ==
    IF Len(data) = 0 THEN ValueError("Data cannot be empty")
    ELSE LET keys == SortedKeys({SessionDate(data[i]) : i \in 1..Len(data)})
         IN  [value |-> VwapValues(data, keys, 1)]

\* The close series handed to the calculator: every series up to MaxBars rows,
\* and the series of the repository's tests (prices in units of 0.01).
EmaKnownValues == <<10, 11, 12, 11, 10>>
CrossoverCloses == <<120, 110, 100, 105, 115, 125, 135>>
CloseSeries == SeqsUpTo(1..MaxPrice, MaxBars) \cup {EmaKnownValues, CrossoverCloses}

\* The length argument: omitted, or a number.
Lengths == {None} \cup {Some(k) : k \in 0..MaxLength}

\* A calculator constructed with a positive ema_length, handed a DataFrame.
InitCalc ==
    /\ series \in CloseSeries
    /\ ema_length \in 1..MaxLength
    /\ result = NoResult
    /\ storage = EmptyDict
    /\ last_cleanup = 0
    /\ now = 0
    /\ ret = NoCall
    /\ lock = NoThread
    /\ pc = [t \in Threads |-> "idle"]
    /\ frame = [t \in Threads |-> NoFrame]
    /\ calls = [t \in Threads |-> 0]
    /\ written = [s \in Symbols |-> {}]
    /\ swept = NoSweep
    /\ autoStart = None
    /\ sweepEnd = None
    /\ bars = <<>>
    /\ levels = <<>>
    /\ held = None
    /\ sharedWith = {}
    /\ fields = NoFields
    /\ fetch = NoFetch

storeState == <<storage, last_cleanup, now, ret, lock, pc, frame, calls,
                written, swept, autoStart, sweepEnd, callerVars, ioVars>>

\* The calculator keeps nothing between calls (ema_length is set once, by the
\* constructor), so a behaviour is one call on the constructed calculator.

CalculateEmaCall(length) ==
    /\ result = NoResult
    /\ result' = [op |-> "calculate_ema", length |-> length,
                  out |-> CalculateEma(series, length, ema_length)]
    /\ UNCHANGED <<series, ema_length, bars, levels, storeState>>

CalculateZlmaCall(length) ==
    /\ result = NoResult
    /\ result' = [op |-> "calculate_zlma", length |-> length,
                  out |-> CalculateZlma(series, length, ema_length)]
    /\ UNCHANGED <<series, ema_length, bars, levels, storeState>>

DetectSignalsCall(symbol) ==
    /\ result = NoResult
    /\ \E rounding \in DetectRoundings(series, ema_length) :
          result' = [op |-> "detect_signals", symbol |-> symbol, rounding |-> rounding,
                     out |-> DetectSignals(series, symbol, ema_length, rounding)]
    /\ UNCHANGED <<series, ema_length, bars, levels, storeState>>

NextCalc ==
    \/ \E length \in Lengths : CalculateEmaCall(length)
    \/ \E length \in Lengths : CalculateZlmaCall(length)
    \/ \E symbol \in Symbols : DetectSignalsCall(symbol)

SpecCalc == InitCalc /\ [][NextCalc]_vars

\* A calculator handed a DataFrame of OHLCV rows for calculate_vwap.
InitVwap ==
    /\ bars \in SeqsUpTo(VwapRow, MaxVwapBars)
    /\ series = <<>>
    /\ ema_length = DefaultEmaLength
    /\ result = NoResult
    /\ levels = <<>>
    /\ storage = EmptyDict
    /\ last_cleanup = 0
    /\ now = 0
    /\ ret = NoCall
    /\ lock = NoThread
    /\ pc = [t \in Threads |-> "idle"]
    /\ frame = [t \in Threads |-> NoFrame]
    /\ calls = [t \in Threads |-> 0]
    /\ written = [s \in Symbols |-> {}]
    /\ swept = NoSweep
    /\ autoStart = None
    /\ sweepEnd = None
    /\ held = None
    /\ sharedWith = {}
    /\ fields = NoFields
    /\ fetch = NoFetch

CalculateVwapCall ==
    /\ result = NoResult
    /\ result' = [op |-> "calculate_vwap", out |-> CalculateVwap(bars)]
    /\ UNCHANGED <<series, ema_length, bars, levels, storeState>>

NextVwap == CalculateVwapCall

SpecVwap == InitVwap /\ [][NextVwap]_vars

\* The close series of a step change: constant at c0, then at c1 # c0 from
\* row k on, up to MaxStepBars rows.
MaxStepBars == 6

StepCloses ==
    {[i \in 1..p[1] |-> IF i < p[2] THEN p[3] ELSE p[4]] :
        p \in {q \in (2..MaxStepBars) \X (2..MaxStepBars) \X (1..MaxPrice) \X (1..MaxPrice) :
                  q[2] <= q[1] /\ q[3] # q[4]}}

\* A calculator handed a DataFrame whose closes make one step.
InitStep ==
    /\ series \in StepCloses
    /\ ema_length \in 1..MaxLength
    /\ result = NoResult
    /\ bars = <<>>
    /\ levels = <<>>
    /\ fields = NoFields
    /\ fetch = NoFetch
    /\ storage = EmptyDict
    /\ last_cleanup = 0
    /\ now = 0
    /\ ret = NoCall
    /\ lock = NoThread
    /\ pc = [t \in Threads |-> "idle"]
    /\ frame = [t \in Threads |-> NoFrame]
    /\ calls = [t \in Threads |-> 0]
    /\ written = [s \in Symbols |-> {}]
    /\ swept = NoSweep
    /\ autoStart = None
    /\ sweepEnd = None
    /\ held = None
    /\ sharedWith = {}

SpecStep == InitStep /\ [][NextCalc]_vars

\* SignalCalculator(ema_length=length): constructing another calculator.
ConstructCall(length) ==
    /\ result = NoResult
    /\ result' = [op |-> "__init__", length |-> length, out |-> SignalCalculatorInit(length)]
    /\ UNCHANGED <<series, ema_length, bars, levels, storeState>>

\* Every public call of the calculator, on a frame of closes or of OHLCV rows
\* (the other one being empty).
InitIndicators == InitCalc \/ InitVwap

NextIndicators ==
    \/ \E length \in (-1)..MaxLength : ConstructCall(length)
    \/ CalculateVwapCall
    \/ \E length \in Lengths : CalculateEmaCall(length)
    \/ \E length \in Lengths : CalculateZlmaCall(length)
    \/ \E symbol \in Symbols : DetectSignalsCall(symbol)

SpecIndicators == InitIndicators /\ [][NextIndicators]_vars

\* The four values handed to _calculate_signal_confidence: every combination
\* of small whole values of either sign, and of two values so close that the
\* separation stays below the cap of 0.3.
MaxLevel == 2       \* zlma and ema values range over -MaxLevel..MaxLevel
SmallLevels == {Rat(k) : k \in (-MaxLevel)..MaxLevel}
CloseLevels == {Rat(400), Rat(401)}
LevelQuads ==
    [prev_zlma : SmallLevels, prev_ema : SmallLevels,
     current_zlma : SmallLevels, current_ema : SmallLevels]
    \cup [prev_zlma : CloseLevels, prev_ema : CloseLevels,
          current_zlma : CloseLevels, current_ema : CloseLevels]

InitConfidence ==
    /\ levels \in LevelQuads
    /\ bars = <<>>
    /\ series = <<>>
    /\ ema_length = DefaultEmaLength
    /\ result = NoResult
    /\ storage = EmptyDict
    /\ last_cleanup = 0
    /\ now = 0
    /\ ret = NoCall
    /\ lock = NoThread
    /\ pc = [t \in Threads |-> "idle"]
    /\ frame = [t \in Threads |-> NoFrame]
    /\ calls = [t \in Threads |-> 0]
    /\ written = [s \in Symbols |-> {}]
    /\ swept = NoSweep
    /\ autoStart = None
    /\ sweepEnd = None
    /\ held = None
    /\ sharedWith = {}
    /\ fields = NoFields
    /\ fetch = NoFetch

CalculateSignalConfidenceCall ==
    /\ result = NoResult
    /\ result' = [op |-> "_calculate_signal_confidence",
                  out |-> [value |-> CalculateSignalConfidence(
                                         levels.current_zlma, levels.current_ema,
                                         levels.prev_zlma, levels.prev_ema)]]
    /\ UNCHANGED <<series, ema_length, bars, levels, storeState>>

NextConfidence == CalculateSignalConfidenceCall

SpecConfidence == InitConfidence /\ [][NextConfidence]_vars

---------------------------------------------------------------------------
(* The MarketData constructor called with any field values. *)

MaxBarPrice == 2    \* each price is a whole number in -1..MaxBarPrice, or NaN
MaxBarVolume == 1   \* the volume ranges over -1..MaxBarVolume

BarPriceValues == {Rat(k) : k \in (-1)..MaxBarPrice} \cup {NaN}
BarFields ==
    [symbol : {"", "EURUSD"}, timestamp : {0},
     open : BarPriceValues, high : BarPriceValues, low : BarPriceValues,
     close : BarPriceValues, volume : (-1)..MaxBarVolume]

InitBar ==
    /\ fields \in BarFields
    /\ fetch = NoFetch
    /\ levels = <<>>
    /\ bars = <<>>
    /\ series = <<>>
    /\ ema_length = DefaultEmaLength
    /\ result = NoResult
    /\ storage = EmptyDict
    /\ last_cleanup = 0
    /\ now = 0
    /\ ret = NoCall
    /\ lock = NoThread
    /\ pc = [t \in Threads |-> "idle"]
    /\ frame = [t \in Threads |-> NoFrame]
    /\ calls = [t \in Threads |-> 0]
    /\ written = [s \in Symbols |-> {}]
    /\ swept = NoSweep
    /\ autoStart = None
    /\ sweepEnd = None
    /\ held = None
    /\ sharedWith = {}

\* MarketData(symbol=..., timestamp=..., open=..., ...)
MarketDataCall ==
    /\ result = NoResult
    /\ result' = [op |-> "MarketData",
                  out |-> MarketData(fields.symbol, fields.timestamp, fields.open,
                                     fields.high, fields.low, fields.close, fields.volume)]
    /\ UNCHANGED <<series, ema_length, bars, levels, storeState>>

NextBar == MarketDataCall

SpecBar == InitBar /\ [][NextBar]_vars

---------------------------------------------------------------------------
(* DataFetcher.get_forex_data: the retry loop around ticker.history *)

\* self._max_retries and self._base_delay
MaxRetries == 5
BaseDelay == Rat(1)

\* What random.random() returns in _calculate_backoff_delay: a value of [0, 1).
Randoms == {Rat(0), <<1, 4>>, <<1, 2>>}

\* What ticker.history returns when it does not raise: a frame of closes.
HistoryFrames == {<<>>, <<1>>, <<1, 2>>}

RECURSIVE TwoTo(_)
TwoTo(n) == IF n = 0 THEN 1 ELSE 2 * TwoTo(n - 1)

\* _calculate_backoff_delay(attempt), random.random() having returned r
CalculateBackoffDelay(attempt, r) ==
    LET delay == RMin(RMul(BaseDelay, Rat(TwoTo(attempt))), Rat(60))
        jitter == RMul(RMul(delay, <<1, 5>>), RSub(r, <<1, 2>>))
    IN  RAdd(delay, jitter)

\* the handler sleeps on every failed attempt
SleepsAfterEveryAttempt(attempt) == TRUE

\* if attempt < self._max_retries - 1: time.sleep(delay)
SleepsBeforeRetry(attempt) == attempt < MaxRetries - 1

\* for attempt in range(self._max_retries): the loop goes on to the next
\* attempt, or is exhausted and the function returns None
NextAttempt(f, attempt) ==
    IF attempt < MaxRetries
    THEN [f EXCEPT !.pc = "attempt", !.attempt = attempt]
    ELSE [f EXCEPT !.pc = "returned", !.ret = None]

fetchRest == <<series, ema_length, bars, levels, result, fields,
               storage, last_cleanup, now, ret, lock, pc, frame, calls,
               written, swept, autoStart, sweepEnd, callerVars>>

InitFetch ==
    /\ fetch = NoFetch
    /\ fields = NoFields
    /\ levels = <<>>
    /\ bars = <<>>
    /\ series = <<>>
    /\ ema_length = DefaultEmaLength
    /\ result = NoResult
    /\ storage = EmptyDict
    /\ last_cleanup = 0
    /\ now = 0
    /\ ret = NoCall
    /\ lock = NoThread
    /\ pc = [t \in Threads |-> "idle"]
    /\ frame = [t \in Threads |-> NoFrame]
    /\ calls = [t \in Threads |-> 0]
    /\ written = [s \in Symbols |-> {}]
    /\ swept = NoSweep
    /\ autoStart = None
    /\ sweepEnd = None
    /\ held = None
    /\ sharedWith = {}

\* get_forex_data(symbol) is called and enters the loop. history records what
\* each ticker.history call did, slept the delays passed to time.sleep.
GetForexDataCall(symbol) ==
    /\ fetch = NoFetch
    /\ fetch' = NextAttempt([pc |-> "attempt", symbol |-> symbol, attempt |-> 0,
                             history |-> <<>>, slept |-> <<>>, ret |-> None], 0)
    /\ UNCHANGED fetchRest

\* One attempt in which ticker.history returns a frame: an empty frame returns
\* None, any other is returned with its Symbol column.
HistoryReturns(data) ==
    /\ fetch.pc = "attempt"
    /\ fetch' = [fetch EXCEPT
                   !.pc = "returned",
                   !.history = Append(@, [raised |-> FALSE, data |-> data]),
                   !.ret = IF data = <<>> THEN None
                           ELSE Some([rows |-> data, Symbol |-> fetch.symbol])]
    /\ UNCHANGED fetchRest

\* One attempt in which ticker.history raises: the handler computes the delay,
\* sleeps unless this was the last attempt, and the loop goes on.
HistoryRaises(r) ==
    /\ fetch.pc = "attempt"
    /\ LET attempt == fetch.attempt
           delay == CalculateBackoffDelay(attempt, r)
           after == [fetch EXCEPT
                       !.history = Append(@, [raised |-> TRUE]),
                       !.slept = IF SleepsBeforeRetry(attempt) THEN Append(@, delay) ELSE @]
       IN  fetch' = NextAttempt(after, attempt + 1)
    /\ UNCHANGED fetchRest

FetchStep ==
    \/ \E data \in HistoryFrames : HistoryReturns(data)
    \/ \E r \in Randoms : HistoryRaises(r)

NextFetch ==
    \/ \E symbol \in Symbols : GetForexDataCall(symbol)
    \/ FetchStep

SpecFetch == InitFetch /\ [][NextFetch]_vars

\* A call in progress goes on: ticker.history returns or raises, and
\* time.sleep(delay) returns after the finite delay.
FairSpecFetch == SpecFetch /\ WF_vars(FetchStep)

---------------------------------------------------------------------------
(* Claims about the store driven by one caller *)

Min(a, b) == IF a <= b THEN a ELSE b

StrictlyAscending(df) == \A i \in 1..(Len(df) - 1) : df[i].ts < df[i + 1].ts

\* The close of the last row of data carrying timestamp t.
LastCloseAt(data, t) ==
    LET i == CHOOSE k \in 1..Len(data) :
                 data[k].ts = t /\ \A j \in (k + 1)..Len(data) : data[j].ts # t
    IN  data[i].close

RowsAt(df, t) == {i \in 1..Len(df) : df[i].ts = t}

\* C1: after any sequence of store calls (the first store of an instrument
\* included, with a batch in any order and with repeated timestamps), a query
\* with a count at least the number of stored bars returns the bars in strictly
\* ascending timestamp order, no timestamp twice.
C1_QuerySortedUnique ==
    \A s \in DOMAIN storage :
        \A periods \in Len(storage[s])..(Len(storage[s]) + 1) :
            LET q == GetHistoricalData(storage, s, periods)
            IN  q # None => StrictlyAscending(q[1])

\* C2: a store of bars into an instrument that already holds one of their
\* timestamps leaves exactly one bar at each stored timestamp, with the values
\* of the later call; bars at other timestamps keep their values, and the bar
\* count grows by the number of new timestamps only.
C2_LastWriteWins ==
    [][\A t \in Threads :
         ( /\ StoreWrite(t)
           /\ frame[t].symbol \in DOMAIN storage
           /\ TsOf(frame[t].data) \cap TsOf(storage[frame[t].symbol]) # {} )
         => LET symbol == frame[t].symbol
                data == frame[t].data
            IN  /\ symbol \in DOMAIN storage'
                /\ \A ts \in TsOf(data) :
                      /\ Cardinality(RowsAt(storage'[symbol], ts)) = 1
                      /\ \A i \in RowsAt(storage'[symbol], ts) :
                            storage'[symbol][i].close = LastCloseAt(data, ts)
                /\ \A ts \in TsOf(storage[symbol]) \ TsOf(data) :
                      {storage'[symbol][i] : i \in RowsAt(storage'[symbol], ts)}
                          = {storage[symbol][i] : i \in RowsAt(storage[symbol], ts)}
                /\ Len(storage'[symbol])
                      = Len(storage[symbol])
                          + Cardinality(TsOf(data) \ TsOf(storage[symbol]))
      ]_vars

\* C6: after a sweep, every remaining bar is at or after the cutoff, every bar
\* that was at or after the cutoff is still there unchanged, and an instrument
\* left with no bars is gone from the store (has_data false, not in the stats).
C6_EvictExpired ==
    swept.valid =>
        LET before == swept.before
            cutoff == swept.cutoff
            stats == GetStorageStats(storage, last_cleanup)
        IN  /\ DOMAIN storage \subseteq DOMAIN before
            /\ \A s \in DOMAIN storage : \A i \in 1..Len(storage[s]) :
                  storage[s][i].ts >= cutoff
            /\ \A s \in DOMAIN before :
                  LET kept == {i \in 1..Len(before[s]) : before[s][i].ts >= cutoff}
                  IN  IF kept = {}
                      THEN /\ s \notin DOMAIN storage
                           /\ ~HasData(storage, s)
                           /\ s \notin stats.symbols
                           /\ s \notin DOMAIN stats.symbol_details
                      ELSE /\ s \in DOMAIN storage
                           /\ Len(storage[s]) = Cardinality(kept)
                           /\ \A i \in kept : \E j \in 1..Len(storage[s]) :
                                 /\ storage[s][j] = before[s][i]
                                 /\ Cardinality({k \in kept : k < i}) = j - 1

\* A sweep that dropped one instrument whole, trimmed another and kept a bar
\* sitting exactly on the cutoff.
C6_Witness ==
    /\ swept.valid
    /\ \E s \in DOMAIN swept.before : s \notin DOMAIN storage
    /\ \E s \in DOMAIN storage :
          /\ Len(storage[s]) < Len(swept.before[s])
          /\ \E i \in 1..Len(storage[s]) : storage[s][i].ts = swept.cutoff

\* C10: for an instrument holding n >= 1 bars and maxCount >= 1, query returns
\* the last min(maxCount, n) stored bars in stored order; it returns None
\* exactly when the instrument holds no bars.
C10_QueryTail ==
    ret.op = "get_historical_data" =>
        LET n == IF ret.symbol \in DOMAIN storage THEN Len(storage[ret.symbol]) ELSE 0
            k == Min(ret.periods, n)
        IN  /\ (ret.value = None) <=> (n = 0)
            /\ n >= 1 =>
                  /\ Len(ret.value[1]) = k
                  /\ \A j \in 1..k : ret.value[1][j] = storage[ret.symbol][n - k + j]

\* A query that had to cut: more bars stored than asked for.
C10_Witness ==
    /\ ret.op = "get_historical_data"
    /\ ret.symbol \in DOMAIN storage
    /\ Len(storage[ret.symbol]) > ret.periods
    /\ ret.value # None
    /\ ret.value[1][1] # storage[ret.symbol][1]

\* The symbol has no stored data.
NoStoredData(st, symbol) == symbol \notin DOMAIN st \/ Empty(st[symbol])

\* C18: get_data_range(symbol, start, end) returns exactly the stored rows with
\* start <= timestamp <= end, both bounds included, in stored order; it returns
\* None when no stored row lies in the range (start > end included) or the
\* symbol is unknown; and the call leaves the store as it was.
C18_RangeInclusive ==
    /\ [](ret.op = "get_data_range" =>
            LET inRange(row) == ret.start_time <= row.ts /\ row.ts <= ret.end_time
                expected == IF ret.symbol \in DOMAIN storage
                            THEN SelectSeq(storage[ret.symbol], inRange) ELSE <<>>
            IN  ret.value = (IF expected = <<>> THEN None ELSE Some(expected)))
    /\ [][\A symbol \in Symbols, start_time \in 0..MaxTs, end_time \in 0..MaxTs :
             GetDataRangeCall(symbol, start_time, end_time)
                 => storage' = storage /\ last_cleanup' = last_cleanup]_vars

\* A range call whose two bounds are the same stored timestamp returned the
\* rows at that timestamp and left other stored rows out.
C18_Witness ==
    /\ ret.op = "get_data_range"
    /\ ret.start_time = ret.end_time
    /\ ret.value # None
    /\ Len(ret.value[1]) < Len(storage[ret.symbol])
    /\ \A i \in 1..Len(ret.value[1]) : ret.value[1][i].ts = ret.end_time

\* C19: on a symbol without stored data get_historical_data, get_data_range,
\* get_latest_price, get_latest_data_point and get_data_age return None (no
\* exception), clear_symbol_data returns False, and none of these calls
\* changes the stored data.
C19_AbsentNotError ==
    [][\A symbol \in Symbols :
         NoStoredData(storage, symbol) =>
            /\ ((\/ \E periods \in 1..MaxPeriods : GetHistorical(symbol, periods)
                 \/ \E start_time \in 0..MaxTs, end_time \in 0..MaxTs :
                        GetDataRangeCall(symbol, start_time, end_time)
                 \/ GetLatestPriceCall(symbol)
                 \/ GetLatestDataPointCall(symbol)
                 \/ GetDataAgeCall(symbol))
                   => ret'.value = None /\ storage' = storage)
            /\ (ClearSymbolData(symbol)
                   => ret'.value = FALSE /\ storage' = storage)]_vars

\* A query on an unknown symbol answered None while the other symbol had data.
C19_Witness ==
    /\ ret.op \in {"get_latest_price", "get_data_age", "get_latest_data_point"}
    /\ ret.symbol \notin DOMAIN storage
    /\ storage # EmptyDict
    /\ ret.value = None

\* C20: store_data with an empty batch returns None at once and leaves the
\* store as it was: no entry appears for an unknown symbol, the rows of a known
\* symbol stay, and no statement of the call is left to run, so that no cleanup
\* runs even when one is due.
C20_EmptyBatchNoOp ==
    [][\A symbol \in Symbols :
         StoreData(symbol, <<>>)
            => /\ storage' = storage
               /\ last_cleanup' = last_cleanup
               /\ ret'.op = "store_data"
               /\ ret'.value = None
               /\ pc'[Caller] = "idle"]_vars

\* An empty batch was stored for an unknown symbol while a cleanup was due and
\* another symbol held rows older than the cutoff.
C20_Witness ==
    /\ ret.op = "store_data"
    /\ ret.rows = 0
    /\ ret.symbol \notin DOMAIN storage
    /\ CleanupDue(now, last_cleanup)
    /\ \E s \in DOMAIN storage : \E i \in 1..Len(storage[s]) :
           storage[s][i].ts < CutoffTime(now)

\* What get_historical_data, get_data_range, get_latest_price and
\* get_storage_stats report, for every argument.
Reports(st, last) ==
    <<[symbol \in Symbols, periods \in 1..MaxPeriods |->
          GetHistoricalData(st, symbol, periods)],
      [symbol \in Symbols, start_time \in 0..MaxTs, end_time \in 0..MaxTs |->
          GetDataRange(st, symbol, start_time, end_time)],
      [symbol \in Symbols |-> GetLatestPrice(st, symbol)],
      GetStorageStats(st, last)>>

\* C11: changing in place the batch that was passed to store_data, or a result
\* returned by get_historical_data or get_data_range, changes nothing that a
\* later get_historical_data, get_data_range, get_latest_price or
\* get_storage_stats reports.
C11_NoSharedReference ==
    [][\A df \in Frames :
         MutateHeld(df) => Reports(storage', last_cleanup') = Reports(storage, last_cleanup)]_vars

\* The caller changed the batch it had stored as the first rows of a symbol,
\* and the store still holds rows for that symbol that differ from it.
C11_Witness ==
    /\ held # None
    /\ held[1].mutated
    /\ held[1].op = "store_data"
    /\ held[1].symbol \in DOMAIN storage
    /\ Len(storage[held[1].symbol]) = 1
    /\ storage[held[1].symbol] # held[1].df

\* C21: for every instrument with data, get_latest_price and
\* get_latest_data_point report the close and the fields of the bar with the
\* greatest stored timestamp, and that is the timestamp get_data_age measures
\* from.
C21_LatestIsNewest ==
    \A s \in DOMAIN storage :
        ~Empty(storage[s]) =>
            LET newest == IndexMax(storage[s])
                price == GetLatestPrice(storage, s)
                bar == GetLatestDataPoint(storage, s)
                age == GetDataAge(storage, s, now)
            IN  /\ age = Some(now - newest)
                /\ bar # None
                /\ bar[1].timestamp = newest
                /\ bar[1].close = Rat(price[1])
                /\ \E i \in RowsAt(storage[s], newest) :
                       /\ Rat(storage[s][i].close) = bar[1].close
                       /\ \A j \in RowsAt(storage[s], newest) : j <= i

---------------------------------------------------------------------------
(* Claims about the store called from several threads *)

\* The statements that read or write self._storage or self._last_cleanup.
SharedAccess ==
    {"sd_read", "sd_write", "mc_check", "cl_body", "cl_stamp", "gs_body", "gh_body", "cs_body"}

\* C7: every read or write of the shared state (the instrument map, the
\* last-sweep time) is made by a thread that holds the store's lock.
C7_SharedStateUnderLock ==
    \A t \in Threads : pc[t] \in SharedAccess => lock = t

AllReturned == \A t \in Threads : pc[t] = "idle"

NoneExpired == \A s \in Symbols : \A ts \in written[s] : ts >= CutoffTime(now)

\* C8: once all callers have returned and no bar has expired, each instrument
\* holds exactly the timestamps stored into it, one bar each, and the stats
\* count the instruments written.
C8_NoStoreLost ==
    (AllReturned /\ NoneExpired) =>
        /\ \A s \in Symbols :
              IF written[s] = {}
              THEN s \notin DOMAIN storage
              ELSE /\ s \in DOMAIN storage
                   /\ TsOf(storage[s]) = written[s]
                   /\ Len(storage[s]) = Cardinality(written[s])
        /\ GetStorageStats(storage, last_cleanup).symbols_count
              = Cardinality({s \in Symbols : written[s] # {}})

\* Both threads have stored, into both instruments, and one instrument holds
\* bars of both writers.
C8_Witness ==
    /\ AllReturned
    /\ NoneExpired
    /\ DOMAIN storage = Symbols
    /\ \A t \in Threads : calls[t] = MaxCalls
    /\ \E s \in DOMAIN storage :
          \A t \in Threads : \E i \in 1..Len(storage[s]) : storage[s][i].close = WriterId(t)

\* C9: two automatically triggered sweeps never start less than one sweep
\* interval apart, and none starts less than one interval after the previous
\* sweep of any kind finished, whatever the interleaving of the store calls.
C9_AutoSweepOncePerInterval ==
    [][\A t \in Threads :
         (MaybeCleanup(t) /\ pc'[t] = "cl_cutoff")
         => /\ autoStart # None => now - autoStart[1] >= CleanupInterval
            /\ sweepEnd # None => now - sweepEnd[1] >= CleanupInterval
      ]_vars

---------------------------------------------------------------------------
(* Claims about the SignalCalculator *)

RECURSIVE Pow(_, _)
Pow(b, k) == IF k = 0 THEN 1 ELSE b * Pow(b, k - 1)

\* The EMA recursion in whole numbers: with D = length + 1 and
\* E[i] = ema[i] * D^(i-1), ema[i] = (2*close[i] + (D-2)*ema[i-1]) / D reads
\* E[1] = close[1], E[i] = 2*close[i]*D^(i-2) + (D-2)*E[i-1].
RECURSIVE ScaledEma(_, _, _)
ScaledEma(c, D, i) ==
    IF i = 1 THEN c[1]
    ELSE 2 * c[i] * Pow(D, i - 2) + (D - 2) * ScaledEma(c, D, i - 1)

\* The adjusted close 2*close[i] - ema[i], times D^(i-1).
ScaledAdjusted(c, D, i) == 2 * c[i] * Pow(D, i - 1) - ScaledEma(c, D, i)

\* The second pass over the adjusted closes, Z[i] = zlma[i] * D^i:
\* Z[1] = close[1]*D, Z[i] = 2*A[i] + (D-2)*Z[i-1].
RECURSIVE ScaledZlma(_, _, _)
ScaledZlma(c, D, i) ==
    IF i = 1 THEN c[1] * D
    ELSE 2 * ScaledAdjusted(c, D, i) + (D - 2) * ScaledZlma(c, D, i - 1)

\* The length a call works with.
EffectiveLength(length) == IF length # None THEN length[1] ELSE ema_length

Returned(op) == result.op = op /\ ~Raised(result.out)

\* C3: over n >= length bars the scan emits a BUY at i exactly when
\* zlma[i-1] <= ema[i-1] and zlma[i] > ema[i], a SELL at i exactly when
\* zlma[i-1] >= ema[i-1] and zlma[i] < ema[i], nothing elsewhere, in increasing
\* index order; a BUY carries zlma_value > ema_value, a SELL zlma_value <
\* ema_value, and a constant series yields the empty list, not an error.  The
\* comparisons are those of the floats computed (FloatOrder).
C3_CrossoverExact ==
    (result.op = "detect_signals" /\ Len(series) >= ema_length /\ Len(series) >= 1) =>
        /\ ~Raised(result.out)
        /\ LET sigs == result.out.value
               n == Len(series)
               e == CalculateEma(series, None, ema_length).value
               z == CalculateZlma(series, None, ema_length).value
               Order(i) == FloatOrder(z[i], e[i], result.rounding[i])
               Buy(i) == Order(i - 1) <= 0 /\ Order(i) > 0
               Sell(i) == Order(i - 1) >= 0 /\ Order(i) < 0
               At(i, type) == \E k \in 1..Len(sigs) :
                                 sigs[k].index = i /\ sigs[k].signal_type = type
           IN  /\ \A k \in 1..(Len(sigs) - 1) : sigs[k].index < sigs[k + 1].index
               /\ \A k \in 1..Len(sigs) :
                     /\ sigs[k].index \in 2..n
                     /\ sigs[k].signal_type \in {"BUY", "SELL"}
                     /\ sigs[k].zlma_value = z[sigs[k].index]
                     /\ sigs[k].ema_value = e[sigs[k].index]
                     /\ sigs[k].signal_type = "BUY" => Order(sigs[k].index) > 0
                     /\ sigs[k].signal_type = "SELL" => Order(sigs[k].index) < 0
               /\ \A i \in 2..n : At(i, "BUY") <=> Buy(i)
               /\ \A i \in 2..n : At(i, "SELL") <=> Sell(i)
               /\ (\A i \in 1..n : series[i] = series[1]) => sigs = <<>>
               /\ (series = CrossoverCloses /\ ema_length = 3) => At(5, "BUY")

\* A scan that found both directions, the first straight out of the tie at
\* the first bar.
C3_Witness ==
    /\ Returned("detect_signals")
    /\ \E k \in 1..Len(result.out.value) : result.out.value[k].signal_type = "BUY"
    /\ \E k \in 1..Len(result.out.value) : result.out.value[k].signal_type = "SELL"
    /\ result.out.value[1].index = 2

\* C4: ema[0] = close[0] and ema[i] = alpha*close[i] + (1-alpha)*ema[i-1] with
\* alpha = 2/(length+1); close = [10,11,12,11,10] with length 3 gives
\* [10.0, 10.5, 11.25, 11.125, 10.5625].
C4_EmaRecursion ==
    Returned("calculate_ema") =>
        LET v == result.out.value
            D == EffectiveLength(result.length) + 1
        IN  /\ Len(v) = Len(series)
            /\ v[1] = Rat(series[1])
            /\ \A i \in 2..Len(series) :
                  v[i] = Norm(ScaledEma(series, D, i), Pow(D, i - 1))
            /\ (series = EmaKnownValues /\ D = 4) =>
                  v = <<<<10, 1>>, <<21, 2>>, <<45, 4>>, <<89, 8>>, <<169, 16>>>>

C4_Witness ==
    /\ Returned("calculate_ema")
    /\ series = EmaKnownValues
    /\ EffectiveLength(result.length) = 3
    /\ result.out.value[5] = <<169, 16>>

\* C5: zlma is the EMA, with the same length and seeded with its own first
\* element, of the adjusted series adj[i] = close[i] + (close[i] - ema[i]).
C5_ZlmaTwoPass ==
    Returned("calculate_zlma") =>
        LET v == result.out.value
            L == EffectiveLength(result.length)
            D == L + 1
            e == CalculateEma(series, Some(L), ema_length).value
            adj == [i \in 1..Len(series) |-> RSub(Rat(2 * series[i]), e[i])]
        IN  /\ Len(v) = Len(series)
            /\ v[1] = adj[1]
            /\ v = EwmMean(adj, L)
            /\ \A i \in 1..Len(series) :
                  v[i] = Norm(ScaledZlma(series, D, i), Pow(D, i))

\* A ZLMA of a series that moves: it parts from the EMA.
C5_Witness ==
    /\ Returned("calculate_zlma")
    /\ Len(series) >= 3
    /\ EffectiveLength(result.length) >= 2
    /\ \E i \in 2..Len(series) :
          result.out.value[i]
              # CalculateEma(series, result.length, ema_length).value[i]


\* C16: detect_signals on a non-empty frame with fewer rows than ema_length
\* raises an insufficient-data error, returning no signals, and that error is
\* of another kind than the validation error raised for an empty frame or a
\* non-positive length.
C16_InsufficientDataKind ==
    (result.op = "detect_signals" /\ Len(series) > 0 /\ Len(series) < ema_length) =>
        /\ Raised(result.out)
        /\ result.out.message = "Insufficient data"
        /\ result.out.error # DetectSignals(<<>>, result.symbol, ema_length, <<>>).error
        /\ result.out.error # CalculateEma(series, Some(0), ema_length).error

\* The series is constant up to row k - 1 and steps to another close at row k.
StepAt(c, k) ==
    /\ k >= 2 /\ k <= Len(c)
    /\ \A j \in 1..(k - 1) : c[j] = c[1]
    /\ c[k] # c[1]

\* |x - c| as a rational
Distance(x, c) == RAbs(RSub(x, Rat(c)))

\* C17 as the claim states it: at a step of the close series the ZLMA is
\* strictly closer to the new close than the EMA, for any valid length.
C17_ResponsiveAnyLength ==
    Returned("calculate_zlma") =>
        LET L == EffectiveLength(result.length)
            ema == CalculateEma(series, Some(L), ema_length).value
        IN  \A k \in 1..Len(series) :
                StepAt(series, k) =>
                    RLt(Distance(result.out.value[k], series[k]), Distance(ema[k], series[k]))

\* C17 amended: the same for any length >= 2; with length 1 the ZLMA and the
\* EMA both equal the close, so both distances are 0.
C17_ZlmaResponsive ==
    Returned("calculate_zlma") =>
        LET L == EffectiveLength(result.length)
            ema == CalculateEma(series, Some(L), ema_length).value
        IN  \A k \in 1..Len(series) :
                StepAt(series, k) =>
                    IF L >= 2
                    THEN RLt(Distance(result.out.value[k], series[k]),
                             Distance(ema[k], series[k]))
                    ELSE /\ Distance(result.out.value[k], series[k]) = Rat(0)
                         /\ Distance(ema[k], series[k]) = Rat(0)

\* A ZLMA of length 3 over a series that steps at its third row: there the
\* ZLMA is a quarter of the step away from the new close, the EMA half of it.
C17_Witness ==
    /\ Returned("calculate_zlma")
    /\ EffectiveLength(result.length) = 3
    /\ StepAt(series, 3)
    /\ Distance(result.out.value[3], series[3])
          = RMul(Norm(1, 4), Distance(Rat(series[1]), series[3]))
    /\ Distance(CalculateEma(series, Some(3), ema_length).value[3], series[3])
          = RMul(Norm(1, 2), Distance(Rat(series[1]), series[3]))

\* The series steps at row k and stays at the new close to its end.
StepAndStay(c, k) ==
    /\ StepAt(c, k)
    /\ \A j \in k..Len(c) : c[j] = c[k]

\* C26 as the claim states it: after a step at row k the ZLMA is at every row
\* i >= k at least as close to the new close as the EMA.
C26_NeverFarther ==
    Returned("calculate_zlma") =>
        LET L == EffectiveLength(result.length)
            ema == CalculateEma(series, Some(L), ema_length).value
        IN  \A k \in 1..Len(series) :
                StepAndStay(series, k) =>
                    \A i \in k..Len(series) :
                        RLe(Distance(result.out.value[i], series[k]),
                            Distance(ema[i], series[k]))

\* C26 amended: |zlma[i] - c1| = |1 - 2 (i - k + 1) / (length + 1)| * |ema[i] - c1|,
\* so the ZLMA is at least as close as the EMA for k <= i <= k + length, and
\* for length >= 2 strictly farther (it has overshot) at every row after
\* k + length.
C26_CloserWithinLength ==
    Returned("calculate_zlma") =>
        LET L == EffectiveLength(result.length)
            ema == CalculateEma(series, Some(L), ema_length).value
        IN  \A k \in 1..Len(series) :
                StepAndStay(series, k) =>
                    \A i \in k..Len(series) :
                        LET dz == Distance(result.out.value[i], series[k])
                            de == Distance(ema[i], series[k])
                        IN  /\ dz = RMul(RAbs(RSub(Rat(1), Norm(2 * (i - k + 1), L + 1))), de)
                            /\ i <= k + L => RLe(dz, de)
                            /\ (i > k + L /\ L >= 2) => RLt(de, dz)
                            /\ L = 1 => dz = Rat(0) /\ de = Rat(0)

\* A ZLMA of length 2 over <<c0, c1, c1, c1, c1>>: at the fifth row the EMA is
\* 1/81 of the step short of c1 and the ZLMA 5/243 of the step beyond it.
C26_Witness ==
    /\ Returned("calculate_zlma")
    /\ EffectiveLength(result.length) = 2
    /\ Len(series) >= 5
    /\ StepAndStay(series, 2)
    /\ Distance(CalculateEma(series, Some(2), ema_length).value[5], series[2])
          = RMul(Norm(1, 81), Distance(Rat(series[1]), series[2]))
    /\ Distance(result.out.value[5], series[2])
          = RMul(Norm(5, 243), Distance(Rat(series[1]), series[2]))

\* C27: in the list one detect_signals call returns, two consecutive signals
\* are never both BUY or both SELL.
C27_DirectionsAlternate ==
    Returned("detect_signals") =>
        \A n \in 1..(Len(result.out.value) - 1) :
            result.out.value[n].signal_type # result.out.value[n + 1].signal_type

\* The signal detect_signals found at row k, if any.
SignalsAt(signals, k) == {n \in 1..Len(signals) : signals[n].index = k}

FirstMoveType(c, k) == IF c[k] > c[1] THEN "BUY" ELSE "SELL"

\* C29 as the claim states it: with ema_length >= 2, detect_signals always
\* emits a signal at the first row whose close differs from the first close,
\* a BUY if it is higher and a SELL if it is lower.
C29_AlwaysSignals ==
    (result.op = "detect_signals" /\ ema_length >= 2) =>
        \A k \in 1..Len(series) :
            StepAt(series, k) =>
                /\ ~Raised(result.out)
                /\ \E n \in SignalsAt(result.out.value, k) :
                       result.out.value[n].signal_type = FirstMoveType(series, k)

\* C29 amended: the same when the frame has at least ema_length rows, where
\* zlma[0] = ema[0] = close[0] and that signal is the first of the list; a
\* shorter frame is rejected and nothing is emitted.
C29_FirstMoveSignals ==
    (result.op = "detect_signals" /\ ema_length >= 2) =>
        /\ Len(series) >= 1 =>
              /\ CalculateEma(series, None, ema_length).value[1] = Rat(series[1])
              /\ CalculateZlma(series, None, ema_length).value[1] = Rat(series[1])
        /\ \A k \in 1..Len(series) :
              StepAt(series, k) =>
                  IF Len(series) < ema_length
                  THEN ValidationError(result.out)
                  ELSE /\ ~Raised(result.out)
                       /\ SignalsAt(result.out.value, k) = {1}
                       /\ result.out.value[1].signal_type = FirstMoveType(series, k)

\* A detection with ema_length 3 whose first signal is a SELL at the third
\* row, the first whose close is not the first close.
C29_Witness ==
    /\ Returned("detect_signals")
    /\ ema_length = 3
    /\ StepAt(series, 3)
    /\ series[3] < series[1]
    /\ result.out.value[1].index = 3
    /\ result.out.value[1].signal_type = "SELL"

---------------------------------------------------------------------------
(* Claims about calculate_vwap *)

\* The rows are in time order: the calendar dates never step back.
TimeOrdered(data) == \A i \in 1..(Len(data) - 1) : data[i].date <= data[i + 1].date

\* Row i is the first row of a later calendar date.
OpensSession(data, i) == i > 1 /\ data[i].date > data[i - 1].date

\* Three times the typical price of a row.
Hlc(row) == row.high + row.low + row.close

\* C12 as the claim states it: over time-ordered rows, the vwap at the first
\* row of the second calendar date is that row's own typical price
\* (high + low + close) / 3, whatever the rows of the first date hold.
C12_ResetAnyVolume ==
    (Returned("calculate_vwap") /\ TimeOrdered(bars)) =>
        \A i \in 1..Len(bars) :
            OpensSession(bars, i) => result.out.value[i] = Norm(Hlc(bars[i]), 3)

\* C12 amended: the same, for a first row of positive volume; with volume 0
\* the vwap at that row is undefined (NaN).
C12_VwapSessionReset ==
    (Returned("calculate_vwap") /\ TimeOrdered(bars)) =>
        \A i \in 1..Len(bars) :
            OpensSession(bars, i) =>
                IF bars[i].volume > 0
                THEN result.out.value[i] = Norm(Hlc(bars[i]), 3)
                ELSE IsNa(result.out.value[i])

\* Two rows of volume on the first date at another price, then the first row
\* of the second date, with volume: its vwap is its own typical price.
C12_Witness ==
    /\ Returned("calculate_vwap")
    /\ Len(bars) = 3
    /\ TimeOrdered(bars)
    /\ OpensSession(bars, 3)
    /\ bars[1].volume > 0 /\ bars[2].volume > 0 /\ bars[3].volume > 0
    /\ Hlc(bars[1]) # Hlc(bars[3])
    /\ result.out.value[3] = Norm(Hlc(bars[3]), 3)
    /\ result.out.value[2] # result.out.value[3]

\* The volume, and three times the price*volume, summed over the rows up to
\* and including row i that share the calendar date.
RECURSIVE SessionVolume(_, _, _)
SessionVolume(data, date, i) ==
    IF i = 0 THEN 0
    ELSE SessionVolume(data, date, i - 1)
            + (IF data[i].date = date THEN data[i].volume ELSE 0)

RECURSIVE SessionHlcVolume(_, _, _)
SessionHlcVolume(data, date, i) ==
    IF i = 0 THEN 0
    ELSE SessionHlcVolume(data, date, i - 1)
            + (IF data[i].date = date THEN Hlc(data[i]) * data[i].volume ELSE 0)

\* C13: vwap[i] is the sum of typical_price * volume over the sum of volume,
\* both taken over the rows of row i's session up to and including i; it is
\* undefined exactly where that volume sum is still zero; and a row of zero
\* volume after volume has accrued repeats the vwap of the session's row
\* before it.
C13_SessionCumulative ==
    Returned("calculate_vwap") =>
        \A i \in 1..Len(bars) :
            LET date == bars[i].date
                volume == SessionVolume(bars, date, i)
                earlier == {k \in 1..(i - 1) : bars[k].date = date}
            IN  /\ IsNa(result.out.value[i]) <=> volume = 0
                /\ volume > 0 =>
                      result.out.value[i] = Norm(SessionHlcVolume(bars, date, i), 3 * volume)
                /\ (bars[i].volume = 0 /\ volume > 0) =>
                      \E k \in earlier :
                          /\ \A other \in earlier : other <= k
                          /\ result.out.value[i] = result.out.value[k]

\* The session-cumulative ratio at row i: typical price times volume over
\* volume, summed over row i and the rows before it of the same date.
SessionRatio(data, i) ==
    LET volume == SessionVolume(data, data[i].date, i)
    IN  IF volume = 0 THEN NaN
        ELSE Norm(SessionHlcVolume(data, data[i].date, i), 3 * volume)

\* C25: whatever the order of the rows' dates, the vwap returned at position i
\* is the session-cumulative ratio of row i, never that of another row.
C25_VwapAligned ==
    Returned("calculate_vwap") =>
        \A i \in 1..Len(bars) : result.out.value[i] = SessionRatio(bars, i)


---------------------------------------------------------------------------
(* Claims about _calculate_signal_confidence *)

\* C14: the confidence is in the closed range [0, 1] for any four values
\* zlma[i-1], ema[i-1], zlma[i], ema[i], those whose average is zero or
\* negative included.
C14_ConfidenceBounds ==
    Returned("_calculate_signal_confidence") =>
        /\ RLe(Rat(0), result.out.value)
        /\ RLe(result.out.value, Rat(1))

\* A crossover that more than doubles the separation reaches the upper bound.
C14_Witness ==
    /\ Returned("_calculate_signal_confidence")
    /\ result.out.value = Rat(1)
    /\ levels.prev_zlma # levels.prev_ema

\* |zlma - ema| / avg(zlma, ema), and 0 only when that average is 0.
SeparationPct(zlma, ema) ==
    IF RAdd(zlma, ema) = Rat(0) THEN Rat(0)
    ELSE RDiv(RAbs(RSub(zlma, ema)), RDiv(RAdd(zlma, ema), Rat(2)))

\* C15: the confidence is the clamp to [0, 1] of
\* 0.5 + min(separation_pct * 100, 0.3), plus
\* min((separation_pct / prev_separation_pct) * 0.1, 0.2) when
\* prev_separation_pct is nonzero, for all four values, those whose average is
\* negative included.
C15_ConfidenceFormula ==
    Returned("_calculate_signal_confidence") =>
        LET separation_pct == SeparationPct(levels.current_zlma, levels.current_ema)
            prev_separation_pct == SeparationPct(levels.prev_zlma, levels.prev_ema)
            first == RMin(RMul(separation_pct, Rat(100)), Norm(3, 10))
            second == IF prev_separation_pct # Rat(0)
                      THEN RMin(RMul(RDiv(separation_pct, prev_separation_pct), Norm(1, 10)),
                                Norm(2, 10))
                      ELSE Rat(0)
            sum == RAdd(RAdd(Norm(1, 2), first), second)
        IN  result.out.value = RMax(Rat(0), RMin(sum, Rat(1)))

---------------------------------------------------------------------------
(* Claims about the arguments of the calculator's calls *)

\* The first i rows of a frame.
Prefix(df, i) == SubSeq(df, 1, i)

\* C23: calculate_vwap, calculate_ema, calculate_zlma and detect_signals raise
\* ValueError on an empty frame; calculate_ema, calculate_zlma and the
\* constructor raise it for a length <= 0; on a non-empty frame with a length
\* > 0 the three indicators return one entry per row, entry i being the value
\* of the indicator at row i (what the call returns last for the first i rows).
C23_ValidationAndShape ==
    /\ (result.op = "__init__" /\ result.length <= 0) => ValidationError(result.out)
    /\ (result.op = "__init__" /\ result.length > 0) => ~Raised(result.out)
    /\ (result.op = "calculate_vwap" /\ bars = <<>>) => ValidationError(result.out)
    /\ (result.op \in {"calculate_ema", "calculate_zlma", "detect_signals"} /\ series = <<>>)
          => ValidationError(result.out)
    /\ (result.op \in {"calculate_ema", "calculate_zlma"}
           /\ EffectiveLength(result.length) <= 0) => ValidationError(result.out)
    /\ (result.op = "calculate_vwap" /\ bars # <<>>) =>
          /\ ~Raised(result.out)
          /\ Len(result.out.value) = Len(bars)
          /\ \A i \in 1..Len(bars) :
                 result.out.value[i] = CalculateVwap(Prefix(bars, i)).value[i]
    /\ (result.op = "calculate_ema" /\ series # <<>> /\ EffectiveLength(result.length) > 0) =>
          /\ ~Raised(result.out)
          /\ Len(result.out.value) = Len(series)
          /\ \A i \in 1..Len(series) :
                 result.out.value[i]
                     = CalculateEma(Prefix(series, i), result.length, ema_length).value[i]
    /\ (result.op = "calculate_zlma" /\ series # <<>> /\ EffectiveLength(result.length) > 0) =>
          /\ ~Raised(result.out)
          /\ Len(result.out.value) = Len(series)
          /\ \A i \in 1..Len(series) :
                 result.out.value[i]
                     = CalculateZlma(Prefix(series, i), result.length, ema_length).value[i]

---------------------------------------------------------------------------
(* Claims about the entries of the store *)

\* sum of symbol_details[s]['records'] over the symbols of S
RECURSIVE SumRecords(_, _)
SumRecords(details, S) ==
    IF S = {} THEN 0
    ELSE LET s == CHOOSE x \in S : TRUE
         IN  details[s].records + SumRecords(details, S \ {s})

\* C30: after any sequence of store_data, cleanup_old_data and clear calls no
\* symbol of the store maps to an empty frame; so has_data(k) is true exactly
\* for the symbols get_storage_stats lists, symbols_count is the number of
\* symbol_details entries, and total_records is the sum of their records.
C30_NoEmptyEntry ==
    LET stats == GetStorageStats(storage, last_cleanup)
    IN  /\ \A k \in DOMAIN storage : ~Empty(storage[k])
        /\ \A k \in Symbols : HasData(storage, k) <=> k \in stats.symbols
        /\ stats.symbols_count = Cardinality(DOMAIN stats.symbol_details)
        /\ stats.total_records
              = SumRecords(stats.symbol_details, DOMAIN stats.symbol_details)

\* A sweep has just dropped a symbol all of whose rows had expired, another
\* symbol remains with its recent rows, and the stats count that one only.
C30_Witness ==
    /\ swept.valid
    /\ \E k \in DOMAIN swept.before : k \notin DOMAIN storage
    /\ \E k \in DOMAIN storage : Len(storage[k]) < Len(swept.before[k])
    /\ GetStorageStats(storage, last_cleanup).symbols_count = 1
    /\ GetStorageStats(storage, last_cleanup).total_records = 1


\* The statements inside a `with self._data_lock` block.
InCriticalSection(t) == pc[t] \in {"sd_read", "sd_write", "cl_body", "lp_body"}

LockDiscipline ==
    \A t \in Threads :
        /\ lock = t <=> InCriticalSection(t)
        \* the sweep a store triggers asks for a lock its thread does not hold
        /\ pc[t] \in {"mc_check", "cl_cutoff", "cl_lock", "cl_stamp", "idle"} => lock # t

\* C28: every call of the store returns with the lock released, whatever the
\* interleaving: a store has released the lock when the sweep it triggers asks
\* for it, the returns inside get_latest_data_point's critical section release
\* it, and no thread waits for the lock for ever.
C28_LockReleased ==
    /\ []LockDiscipline
    /\ \A t \in Threads : (pc[t] # "idle") ~> (pc[t] = "idle" /\ lock # t)

\* A sweep triggered by a store has run, and a get_latest_data_point call has
\* returned None from the except clause (the symbol's last bar has price 0);
\* every thread is idle and the lock is free.
C28_Witness ==
    /\ autoStart # None
    /\ sweepEnd # None
    /\ ret.op = "get_latest_data_point"
    /\ ret.symbol \in DOMAIN storage
    /\ ret.value = None
    /\ \A t \in Threads : pc[t] = "idle"
    /\ lock = NoThread


Raises(f) == {i \in 1..Len(f.history) : f.history[i].raised}

\* The delay of attempt i (0-based) lies within 10% of min(2^i, 60) seconds.
DelayInRange(delay, i) ==
    LET d == RMin(RMul(BaseDelay, Rat(TwoTo(i))), Rat(60))
    IN  RLe(RMul(d, <<9, 10>>), delay) /\ RLt(delay, RMul(d, <<11, 10>>))

FetchRetryShape ==
    fetch.pc # "none" =>
        LET n == Len(fetch.history)
        IN  /\ n <= MaxRetries
            \* every attempt but the last one made has raised
            /\ \A i \in 1..(n - 1) : i \in Raises(fetch)
            \* one sleep per failed attempt, none after the fifth
            /\ Len(fetch.slept) = Cardinality(Raises(fetch) \ {MaxRetries})
            /\ \A i \in 1..Len(fetch.slept) : DelayInRange(fetch.slept[i], i - 1)
            /\ fetch.pc = "attempt" =>
                 n < MaxRetries /\ Raises(fetch) = 1..n /\ fetch.attempt = n
            /\ fetch.pc = "returned" =>
                 /\ n >= 1
                 /\ IF n \in Raises(fetch)
                    THEN n = MaxRetries /\ fetch.ret = None
                    ELSE IF fetch.history[n].data = <<>>
                    THEN fetch.ret = None
                    ELSE fetch.ret = Some([rows |-> fetch.history[n].data,
                                           Symbol |-> fetch.symbol])

\* C24: get_forex_data makes at most MaxRetries attempts and always returns:
\* the data of the first attempt that yields a non-empty frame, None at once
\* when an attempt yields an empty frame, None after MaxRetries failures; it
\* sleeps only between attempts, never after the last one.
C24_FetchRetry ==
    /\ []FetchRetryShape
    /\ (fetch.pc = "attempt") ~> (fetch.pc = "returned")

C24_Witness ==
    /\ fetch.pc = "returned"
    /\ Len(fetch.history) = MaxRetries
    /\ Raises(fetch) = 1..MaxRetries
    /\ Len(fetch.slept) = MaxRetries - 1
    /\ fetch.ret = None

---------------------------------------------------------------------------
(* Claims about the MarketData constructor *)

\* The invariants of a bar: a non-empty symbol, four prices > 0,
\* high >= max(open, close), low <= min(open, close), volume >= 0.
BarValid(f) ==
    /\ f.symbol # ""
    /\ \A price \in {f.open, f.high, f.low, f.close} : RLt(Rat(0), price)
    /\ RLe(f.open, f.high) /\ RLe(f.close, f.high)
    /\ RLe(f.low, f.open) /\ RLe(f.low, f.close)
    /\ f.volume >= 0

\* C22: constructing a MarketData succeeds exactly when the field values
\* satisfy the invariants of a bar, and then the object holds those values;
\* every other combination of field values raises ValueError.
C22_BarValidation ==
    result.op = "MarketData" =>
        IF BarValid(fields)
        THEN result.out = fields
        ELSE Raised(result.out) /\ result.out.error = "ValueError"

=============================================================================
